---- MODULE Spec2Model ----
(***************************************************************************)
(* State-machine model of the oura_api client library.                     *)
(*                                                                         *)
(* One client instance is constructed (Oura static-token client,           *)
(* OuraOAuth client or Webhook client), facade calls are made on it one    *)
(* after the other, and the vendor server answers every request a call     *)
(* issues.  An async function is cut at its await on fetch(): the part up  *)
(* to the fetch is the call action, the part after it is the resume        *)
(* action, whose input is the response the server chose.                   *)
(*                                                                         *)
(* Abstraction level: a request is recorded as the arguments of fetch()    *)
(* before serialisation (base URL, path, the query Record handed to        *)
(* URLSearchParams, headers, body keys); JSON values are records.          *)
(***************************************************************************)
EXTENDS Integers, Sequences, FiniteSets, TLC

(***************************************************************************)
(* Bounds of the model                                                     *)
(***************************************************************************)
\* the server serves at most MaxPages pages that carry a usable cursor
MaxPages == 3

(***************************************************************************)
(* JavaScript values                                                       *)
(***************************************************************************)
Null == "<null>"
Undef == "<undefined>"

\* JS truthiness of a string-or-null-or-undefined value
Truthy(v) == v \notin {Null, Undef, ""}

(***************************************************************************)
(* API_URLS and the base URL literals of the clients                       *)
(***************************************************************************)
baseV2 == "https://api.ouraring.com/v2/usercollection/"
basev2Sandbox == "https://api.ouraring.com/v2/sandbox/usercollection/"
webhookBase == "https://api.ouraring.com/v2/webhook/"
oauthAuthorize == "https://cloud.ouraring.com/oauth/authorize"
oauthToken == "https://api.ouraring.com/oauth/token"
oauthRevokeToken == "https://api.ouraring.com/oauth/revoke"

(***************************************************************************)
(* Inputs the caller can pass                                              *)
(***************************************************************************)
\* access tokens a caller may pass: absent, empty, or a real one
TokenArgs == {Undef, "", "tokA"}
\* credentials of the OAuth / Webhook constructors
CredArgs == {Undef, "cred"}
\* date arguments; ParseableDates are the ones new Date() accepts
DateArgs == {"2023-01-01", "not-a-date"}
ParseableDates == {"2023-01-01"}
DocumentIds == {"doc1"}
\* arguments of the webhook calls; Undef is an omitted optional argument
CallbackUrlArgs == {Undef, "", "https://cb"}
EventTypeArgs == {Undef, "update"}
DataTypeArgs == {Undef, "sleep"}
VerificationTokens == {"vt"}
Endpoints == {"daily_activity"}
\* arguments of the OAuth2 flow helper.  A string that goes through URL
\* encoding is a sequence of pieces: a piece is a run of unreserved
\* characters or one reserved character.
ScopeArgs == {<<>>, <<"email">>, <<"email", "daily">>}
NoState == [given |-> FALSE, str |-> <<>>]
StateArgs == {NoState} \cup {[given |-> TRUE, str |-> x] : x \in {<<>>, <<"xyz">>, <<"a", "&", "b", "=", "c", " ", "d">>}}
CodeArgs == {"code1"}
RefreshTokenArgs == {"refresh1"}

(***************************************************************************)
(* What the server can answer                                              *)
(***************************************************************************)
Statuses == {200, 201, 304, 400, 429, 500}
\* cursors: null, the empty string, and two distinct opaque tokens
NextTokens == {Null, "", "t1", "t2"}
\* data arrays of a page: empty, one item, two items in non-sorted order
PageData == {<<>>, <<"a">>, <<"b", "a">>}

\* A parsed JSON body.  hasData: the body has a data member (an array);
\* next_token, detail: Undef when the member is absent; isNull: the body is
\* the JSON value null, on which reading a member throws a TypeError.
\* every data array with the cursors null, "" and "t1"; the second opaque
\* cursor comes with one data array only
PageBodies == {[json |-> TRUE, hasData |-> TRUE, data |-> d, next_token |-> t, detail |-> Undef, isNull |-> FALSE] :
                  d \in PageData, t \in NextTokens \ {"t2"}}
              \cup
              {[json |-> TRUE, hasData |-> TRUE, data |-> <<"a">>, next_token |-> "t2", detail |-> Undef, isNull |-> FALSE]}
ObjectBodies == {[json |-> TRUE, hasData |-> FALSE, data |-> <<>>, next_token |-> t, detail |-> d, isNull |-> FALSE] :
                  t \in {Undef, "t1"}, d \in {Undef}}
ErrorBodies == {[json |-> TRUE, hasData |-> FALSE, data |-> <<>>, next_token |-> Undef, detail |-> d, isNull |-> FALSE] :
                  d \in {Undef, "", "vendor detail"}}
\* the JSON value null
JSONNull == [json |-> TRUE, hasData |-> FALSE, data |-> <<>>, next_token |-> Undef, detail |-> Undef,
             isNull |-> TRUE]
\* a body that response.json() cannot parse (empty, HTML, plain text)
NotJSON == [json |-> FALSE, hasData |-> FALSE, data |-> <<>>, next_token |-> Undef, detail |-> Undef, isNull |-> FALSE]

statusText(s) == CASE s = 200 -> "OK" [] s = 201 -> "Created" [] s = 304 -> "Not Modified"
                   [] s = 400 -> "Bad Request" [] s = 429 -> "Too Many Requests"
                   [] OTHER -> "Internal Server Error"

\* Response.ok of the fetch API
ok(s) == s >= 200 /\ s <= 299

\* 200 carries a page, a bare object or an unparseable body; the other
\* success status carries a bare object or an unparseable body; failure
\* statuses carry a vendor error object, null or an unparseable body
Responses == {[status |-> 200, statusText |-> statusText(200), body |-> b] :
                 b \in PageBodies \cup ObjectBodies \cup {NotJSON}}
             \cup
             {[status |-> s, statusText |-> statusText(s), body |-> b] :
                 s \in {x \in Statuses : ok(x)} \ {200}, b \in ObjectBodies \cup {NotJSON}}
             \cup
             {[status |-> s, statusText |-> statusText(s), body |-> b] :
                 s \in {x \in Statuses : ~ok(x)}, b \in ErrorBodies \cup {JSONNull, NotJSON}}

(***************************************************************************)
(* Error classes (utils.ts)                                                *)
(***************************************************************************)
NoError == [name |-> "none"]

\* the APIError constructor without the assignment of this.method
APIError_noMethod(name, message, statusCode, responseBody, detail, url, method) ==
    [name |-> name, message |-> message, statusCode |-> statusCode, responseBody |-> responseBody,
     detail |-> detail, url |-> url]

\* new APIError(message, statusCode, responseBody, detail, url, method);
\* RateLimitExceeded and ValidationError extend it and only change name
APIError(name, message, statusCode, responseBody, detail, url, method) ==
    [name |-> name, message |-> message, statusCode |-> statusCode, responseBody |-> responseBody,
     detail |-> detail, url |-> url, method |-> method]

\* the errors whose constructor takes no argument and sets a fixed message
MissingTokenError == [name |-> "MissingTokenError", message |-> "Access token is missing"]
MissingClientIdError == [name |-> "MissingClientIdError", message |-> "Client Id is missing"]
MissingClientSecretError == [name |-> "MissingClientSecretError", message |-> "Client Secret is missing"]
MissingRedirectUriError == [name |-> "MissingRedirectUriError", message |-> "Redirect URI is missing"]

\* what response.json() rejects with when the body is not JSON
SyntaxError == [name |-> "SyntaxError", message |-> "Unexpected token"]

(***************************************************************************)
(* State                                                                   *)
(***************************************************************************)
VARIABLES
    ctorArg,    \* the argument the constructor was called with
    client,     \* the constructed instance and its private fields, or NoClient
    ctorError,  \* the error the constructor threw, or NoError
    pc,         \* "idle": no call yet; "fetching": awaiting fetch(); "done": settled
    call,       \* the facade call being executed
    params,     \* getAll: local variable params
    allData,    \* getAll: local variable allData
    nextToken,  \* getAll: local variable nextToken
    requests,   \* every fetch() issued by the current call, in order
    responses,  \* every response the current call received, in order
    outcome,    \* how the call settled: pending, a value or an error
    console,    \* what the current call wrote with console.log, in order
    earlier,    \* the kind of the call that settled last on this client: "none",
                \* "facade" or "helper" (a method of the OAuth2 flow helper)
    frames      \* calls running concurrently on the client: one frame per call

vars == <<ctorArg, client, ctorError, pc, call, params, allData, nextToken, requests, responses,
          outcome, console, earlier, frames>>

NoArg == [class |-> "none"]
NoClient == [kind |-> "none"]
NoCall == [op |-> "none"]
\* query parameters: some = FALSE is undefined, kv is the Record
NoParams == [some |-> FALSE, kv |-> <<>>]
Params(kv) == [some |-> TRUE, kv |-> kv]

Pending == [kind |-> "pending", items |-> <<>>, body |-> NotJSON, err |-> NoError]
ReturnArray(items) == [kind |-> "array", items |-> items, body |-> NotJSON, err |-> NoError]
ReturnObject(body) == [kind |-> "object", items |-> <<>>, body |-> body, err |-> NoError]
ReturnText(body) == [kind |-> "text", items |-> <<>>, body |-> body, err |-> NoError]
Throw(err) == [kind |-> "error", items |-> <<>>, body |-> NotJSON, err |-> err]
ReturnString(str) == [kind |-> "string", items |-> <<>>, body |-> NotJSON, err |-> NoError, str |-> str]
ReturnBoolean(b) == [kind |-> "boolean", items |-> <<>>, body |-> NotJSON, err |-> NoError, value |-> b]

Init ==
    /\ ctorArg = NoArg
    /\ client = NoClient
    /\ ctorError = NoError
    /\ pc = "idle"
    /\ call = NoCall
    /\ params = NoParams
    /\ allData = <<>>
    /\ nextToken = Null
    /\ requests = <<>>
    /\ responses = <<>>
    /\ outcome = Pending
    /\ console = <<>>
    /\ earlier = "none"
    /\ frames = <<>>

callVars == <<pc, call, params, allData, nextToken, requests, responses, outcome, console>>

(***************************************************************************)
(* Constructors                                                            *)
(***************************************************************************)
\* an optional boolean option: absent, false or true
FlagArgs == {"unset", "false", "true"}
Flag(v) == v = "true"

\* Oura_constructor keeping the supplied token when useSandbox is set
Oura_constructor_keepsToken(accessTokenOrOptions) ==
    IF ~Truthy(accessTokenOrOptions.accessToken)
       /\ ~(accessTokenOrOptions.typeof = "object" /\ Flag(accessTokenOrOptions.useSandbox))
    THEN [threw |-> TRUE, err |-> MissingTokenError, self |-> NoClient]
    ELSE IF accessTokenOrOptions.typeof = "object" /\ Flag(accessTokenOrOptions.useSandbox)
    THEN [threw |-> FALSE, err |-> NoError,
          self |-> [kind |-> "Oura",
                    accessToken |-> IF Truthy(accessTokenOrOptions.accessToken)
                                    THEN accessTokenOrOptions.accessToken ELSE "",
                    baseUrlv2 |-> basev2Sandbox]]
    ELSE [threw |-> FALSE, err |-> NoError,
          self |-> [kind |-> "Oura", accessToken |-> accessTokenOrOptions.accessToken,
                    baseUrlv2 |-> baseV2]]

\* Oura_constructor with the sandbox exemption of the token check left out
Oura_constructor_tokenRequired(accessTokenOrOptions) ==
    IF ~Truthy(accessTokenOrOptions.accessToken)
    THEN [threw |-> TRUE, err |-> MissingTokenError, self |-> NoClient]
    ELSE IF accessTokenOrOptions.typeof = "object" /\ Flag(accessTokenOrOptions.useSandbox)
    THEN [threw |-> FALSE, err |-> NoError,
          self |-> [kind |-> "Oura", accessToken |-> "", baseUrlv2 |-> basev2Sandbox]]
    ELSE [threw |-> FALSE, err |-> NoError,
          self |-> [kind |-> "Oura", accessToken |-> accessTokenOrOptions.accessToken,
                    baseUrlv2 |-> baseV2]]

\* new Oura(accessTokenOrOptions): the argument is a string (the token) or
\* an options object {accessToken?, useSandbox?}
OuraArgs ==
            {[typeof |-> "string", accessToken |-> t, useSandbox |-> "unset"] : t \in TokenArgs \ {Undef}}
            \cup
            {[typeof |-> "object", accessToken |-> t, useSandbox |-> f] : t \in TokenArgs, f \in FlagArgs}

Oura_constructor(accessTokenOrOptions) ==
    LET options == IF accessTokenOrOptions.typeof = "string"
                   THEN [accessToken |-> accessTokenOrOptions.accessToken, useSandbox |-> "unset"]
                   ELSE [accessToken |-> accessTokenOrOptions.accessToken,
                         useSandbox |-> accessTokenOrOptions.useSandbox]
    IN
    IF ~Truthy(options.accessToken) /\ ~Flag(options.useSandbox)
    THEN [threw |-> TRUE, err |-> MissingTokenError, self |-> NoClient]
    ELSE IF Flag(options.useSandbox)
    THEN [threw |-> FALSE, err |-> NoError,
          self |-> [kind |-> "Oura", accessToken |-> "", baseUrlv2 |-> basev2Sandbox]]
    ELSE [threw |-> FALSE, err |-> NoError,
          self |-> [kind |-> "Oura", accessToken |-> options.accessToken, baseUrlv2 |-> baseV2]]

NewOura(arg) ==
    /\ client = NoClient /\ ctorError = NoError
    /\ ctorArg' = [class |-> "Oura", arg |-> arg]
    /\ LET r == Oura_constructor(arg) IN
        /\ client' = r.self
        /\ ctorError' = r.err
    /\ UNCHANGED <<callVars, earlier, frames>>

\* new OuraOAuth({clientId?, clientSecret?, redirectUri?, useSandbox?})
OAuthOptions == [clientId : CredArgs, clientSecret : CredArgs, redirectUri : CredArgs,
                 useSandbox : FlagArgs]

\* OuraOAuth_constructor checking clientSecret before clientId
OuraOAuth_constructor_secretFirst(options) ==
    IF ~Truthy(options.clientSecret)
    THEN [threw |-> TRUE, err |-> MissingClientSecretError, self |-> NoClient]
    ELSE IF ~Truthy(options.clientId)
    THEN [threw |-> TRUE, err |-> MissingClientIdError, self |-> NoClient]
    ELSE IF ~Truthy(options.redirectUri)
    THEN [threw |-> TRUE, err |-> MissingRedirectUriError, self |-> NoClient]
    ELSE [threw |-> FALSE, err |-> NoError,
          self |-> [kind |-> "OuraOAuth", useSandbox |-> Flag(options.useSandbox),
                    clientId |-> options.clientId, clientSecret |-> options.clientSecret,
                    redirectUri |-> options.redirectUri]]

\* OuraOAuth_constructor with the redirectUri check left out
OuraOAuth_constructor_noRedirectCheck(options) ==
    IF ~Truthy(options.clientId)
    THEN [threw |-> TRUE, err |-> MissingClientIdError, self |-> NoClient]
    ELSE IF ~Truthy(options.clientSecret)
    THEN [threw |-> TRUE, err |-> MissingClientSecretError, self |-> NoClient]
    ELSE [threw |-> FALSE, err |-> NoError,
          self |-> [kind |-> "OuraOAuth", useSandbox |-> Flag(options.useSandbox),
                    clientId |-> options.clientId, clientSecret |-> options.clientSecret,
                    redirectUri |-> options.redirectUri]]

\* super(options) of OuraBase runs first and cannot throw
OuraOAuth_constructor(options) ==
    IF ~Truthy(options.clientId)
    THEN [threw |-> TRUE, err |-> MissingClientIdError, self |-> NoClient]
    ELSE IF ~Truthy(options.clientSecret)
    THEN [threw |-> TRUE, err |-> MissingClientSecretError, self |-> NoClient]
    ELSE IF ~Truthy(options.redirectUri)
    THEN [threw |-> TRUE, err |-> MissingRedirectUriError, self |-> NoClient]
    ELSE [threw |-> FALSE, err |-> NoError,
          self |-> [kind |-> "OuraOAuth", useSandbox |-> Flag(options.useSandbox),
                    clientId |-> options.clientId, clientSecret |-> options.clientSecret,
                    redirectUri |-> options.redirectUri]]

NewOuraOAuth(options) ==
    /\ client = NoClient /\ ctorError = NoError
    /\ ctorArg' = [class |-> "OuraOAuth", arg |-> options]
    /\ LET r == OuraOAuth_constructor(options) IN
        /\ client' = r.self
        /\ ctorError' = r.err
    /\ UNCHANGED <<callVars, earlier, frames>>

(***************************************************************************)
(* OuraBase: request executor and pagination aggregator                    *)
(***************************************************************************)
\* the fetch of OuraBase.#get sending an empty bearer in sandbox mode, as
\* the static-token client does
OuraBase_get_fetch_sandboxNoBearer(self, accessToken, url, qs) ==
    [method |-> "GET",
     base |-> IF self.useSandbox THEN basev2Sandbox ELSE baseV2,
     path |-> url,
     qs |-> qs,
     headers |-> [Authorization |-> <<"Bearer", IF self.useSandbox THEN "" ELSE accessToken>>],
     body |-> NoParams]

\* the fetch of OuraBase.#get with the production base for every request
OuraBase_get_fetch_production(self, accessToken, url, qs) ==
    [method |-> "GET",
     base |-> baseV2,
     path |-> url,
     qs |-> qs,
     headers |-> [Authorization |-> <<"Bearer", accessToken>>],
     body |-> NoParams]

\* the fetch() call of OuraBase.#get
OuraBase_get_fetch(self, accessToken, url, qs) ==
    [method |-> "GET",
     base |-> IF self.useSandbox THEN basev2Sandbox ELSE baseV2,
     path |-> url,
     qs |-> qs,
     headers |-> [Authorization |-> <<"Bearer", accessToken>>],
     body |-> NoParams]

\* ErrorDetail with the catch branch leaving detail empty
ErrorDetail_emptyOnParseFailure(body) ==
    IF ~body.json \/ body.isNull THEN ""
    ELSE IF Truthy(body.detail) THEN body.detail
    ELSE ""

\* ErrorDetail with "No details" as the default: errorData.detail || "No details"
ErrorDetail_noDetailsDefault(body) ==
    IF ~body.json \/ body.isNull THEN "No details"
    ELSE IF Truthy(body.detail) THEN body.detail
    ELSE "No details"

\* try { errorData = await response.json(); detail = errorData.detail || "" }
\* catch { detail = "No details" }: the catch takes the SyntaxError of
\* response.json() and the TypeError of reading detail on null
ErrorDetail(body) ==
    IF ~body.json THEN "No details"
    ELSE IF body.isNull THEN "No details"
    ELSE IF Truthy(body.detail) THEN body.detail
    ELSE ""

\* OuraBase.#get with the 429 branch missing: 429 falls through to APIError
OuraBase_get_no429(baseUrl, url, response) ==
    IF response.status = 400
    THEN [threw |-> TRUE, value |-> NotJSON,
          err |-> APIError("ValidationError", "Query Parameter Validation Error", response.status,
                           response.statusText, ErrorDetail(response.body), <<baseUrl, url>>, "GET")]
    ELSE IF ok(response.status)
    THEN IF response.body.json
         THEN [threw |-> FALSE, value |-> response.body, err |-> NoError]
         ELSE [threw |-> TRUE, value |-> NotJSON, err |-> SyntaxError]
    ELSE [threw |-> TRUE, value |-> NotJSON,
          err |-> APIError("APIError", "Problem fetching data.", response.status,
                           response.statusText, ErrorDetail(response.body), <<baseUrl, url>>, "GET")]

\* the part of OuraBase.#get after the fetch: what it returns or throws
OuraBase_get(baseUrl, url, response) ==
    IF response.status = 400
    THEN [threw |-> TRUE, value |-> NotJSON,
          err |-> APIError("ValidationError", "Query Parameter Validation Error", response.status,
                           response.statusText, ErrorDetail(response.body), <<baseUrl, url>>, "GET")]
    ELSE IF response.status = 429
    THEN [threw |-> TRUE, value |-> NotJSON,
          err |-> APIError("RateLimitExceeded", "Request Rate Limit Exceeded", response.status,
                           response.statusText, ErrorDetail(response.body), <<baseUrl, url>>, "GET")]
    ELSE IF ok(response.status)
    THEN IF response.body.json
         THEN [threw |-> FALSE, value |-> response.body, err |-> NoError]
         ELSE [threw |-> TRUE, value |-> NotJSON, err |-> SyntaxError]
    ELSE [threw |-> TRUE, value |-> NotJSON,
          err |-> APIError("APIError", "Problem fetching data.", response.status,
                           response.statusText, ErrorDetail(response.body), <<baseUrl, url>>, "GET")]

\* getAll body that puts the new page in front of the accumulated items
OuraBase_getAll_body_prepend(data, response) ==
    IF response.hasData
    THEN [returned |-> FALSE, ret |-> NotJSON,
          allData |-> response.data \o data,
          nextToken |-> response.next_token,
          params |-> IF Truthy(response.next_token)
                     THEN Params([next_token |-> response.next_token]) ELSE NoParams,
          again |-> Truthy(response.next_token)]
    ELSE [returned |-> TRUE, ret |-> response,
          allData |-> data, nextToken |-> Null, params |-> NoParams, again |-> FALSE]

\* getAll body that adds the cursor to the initial parameters instead of
\* replacing them: params = { ...initialParams, next_token: nextToken }
OuraBase_getAll_body_keepsRange(data, response) ==
    IF response.hasData
    THEN [returned |-> FALSE, ret |-> NotJSON,
          allData |-> data \o response.data,
          nextToken |-> response.next_token,
          params |-> IF Truthy(response.next_token)
                     THEN Params([k \in (DOMAIN call.initialParams.kv) \cup {"next_token"} |->
                                    IF k = "next_token" THEN response.next_token
                                    ELSE call.initialParams.kv[k]])
                     ELSE NoParams,
          again |-> Truthy(response.next_token)]
    ELSE [returned |-> TRUE, ret |-> response,
          allData |-> data, nextToken |-> Null, params |-> NoParams, again |-> FALSE]

\* getAll body without the single-document branch (as in Oura.#getAll)
OuraBase_getAll_body_noSingleBranch(data, response) ==
    [returned |-> FALSE, ret |-> NotJSON,
     allData |-> IF response.hasData THEN data \o response.data ELSE Append(data, Undef),
     nextToken |-> response.next_token,
     params |-> IF Truthy(response.next_token)
                THEN Params([next_token |-> response.next_token]) ELSE NoParams,
     again |-> Truthy(response.next_token)]

\* getAll body returning the data-less body only when nothing was
\* accumulated yet, and the accumulated items otherwise
OuraBase_getAll_body_singleOnlyFirst(data, response) ==
    IF response.hasData
    THEN [returned |-> FALSE, ret |-> NotJSON,
          allData |-> data \o response.data,
          nextToken |-> response.next_token,
          params |-> IF Truthy(response.next_token)
                     THEN Params([next_token |-> response.next_token]) ELSE NoParams,
          again |-> Truthy(response.next_token)]
    ELSE IF data = <<>>
    THEN [returned |-> TRUE, ret |-> response,
          allData |-> data, nextToken |-> Null, params |-> NoParams, again |-> FALSE]
    ELSE [returned |-> FALSE, ret |-> NotJSON,
          allData |-> data, nextToken |-> Null, params |-> NoParams, again |-> FALSE]

\* getAll body testing the cursor against null instead of its truthiness:
\* params = nextToken !== null ? {next_token} : undefined, while (nextToken !== null)
OuraBase_getAll_body_nullCheck(data, response) ==
    IF response.hasData
    THEN [returned |-> FALSE, ret |-> NotJSON,
          allData |-> data \o response.data,
          nextToken |-> response.next_token,
          params |-> IF response.next_token # Null
                     THEN Params([next_token |-> response.next_token]) ELSE NoParams,
          again |-> response.next_token # Null]
    ELSE [returned |-> TRUE, ret |-> response,
          allData |-> data, nextToken |-> Null, params |-> NoParams, again |-> FALSE]

\* getAll body with a cap: the loop stops once two items were accumulated
OuraBase_getAll_body_itemCap(data, response) ==
    IF response.hasData
    THEN [returned |-> FALSE, ret |-> NotJSON,
          allData |-> data \o response.data,
          nextToken |-> response.next_token,
          params |-> IF Truthy(response.next_token)
                     THEN Params([next_token |-> response.next_token]) ELSE NoParams,
          again |-> Truthy(response.next_token) /\ Len(data \o response.data) < 2]
    ELSE [returned |-> TRUE, ret |-> response,
          allData |-> data, nextToken |-> Null, params |-> NoParams, again |-> FALSE]

\* one pass of the do-while body of OuraBase.getAll on a parsed response:
\* again = the loop condition, ret = the value of a return inside the body
OuraBase_getAll_body(data, response) ==
    IF response.hasData
    THEN [returned |-> FALSE, ret |-> NotJSON,
          allData |-> data \o response.data,
          nextToken |-> response.next_token,
          params |-> IF Truthy(response.next_token)
                     THEN Params([next_token |-> response.next_token]) ELSE NoParams,
          again |-> Truthy(response.next_token)]
    ELSE [returned |-> TRUE, ret |-> response,
          allData |-> data, nextToken |-> Null, params |-> NoParams, again |-> FALSE]

\* getAll that fires the request for a second page together with the first
OuraBase_getAll_prefetch(accessToken, endpoint, initialParams) ==
    /\ allData' = <<>>
    /\ nextToken' = Null
    /\ params' = initialParams
    /\ requests' = requests \o << OuraBase_get_fetch(client, accessToken, endpoint, initialParams),
                                   OuraBase_get_fetch(client, accessToken, endpoint, initialParams) >>
    /\ pc' = "fetching"
    /\ UNCHANGED <<responses, outcome>>

\* getAll up to its first await: the locals and the first #get
OuraBase_getAll(accessToken, endpoint, initialParams) ==
    /\ allData' = <<>>
    /\ nextToken' = Null
    /\ params' = initialParams
    /\ requests' = Append(requests, OuraBase_get_fetch(client, accessToken, endpoint, initialParams))
    /\ pc' = "fetching"
    /\ UNCHANGED <<responses, outcome>>

\* fetchData without the token check
OuraOAuth_fetchData_noCheck(endpoint, prms, accessToken) ==
    OuraBase_getAll(accessToken, endpoint, prms)

\* OuraOAuth.fetchData: the override every facade method of OuraBase calls
OuraOAuth_fetchData(endpoint, prms, accessToken) ==
    IF ~Truthy(accessToken)
    THEN /\ outcome' = Throw(MissingTokenError)
         /\ pc' = "done"
         /\ UNCHANGED <<params, allData, nextToken, requests, responses>>
    ELSE OuraBase_getAll(accessToken, endpoint, prms)

\* get<Resource>Documents(startDate, endDate, accessToken?)
getDocuments(endpoint, startDate, endDate, accessToken) ==
    /\ client.kind = "OuraOAuth" /\ pc = "idle"
    /\ call' = [op |-> "getDocuments", endpoint |-> endpoint, accessToken |-> accessToken,
                initialParams |-> Params([start_date |-> startDate, end_date |-> endDate])]
    /\ OuraOAuth_fetchData(endpoint, Params([start_date |-> startDate, end_date |-> endDate]), accessToken)
    /\ UNCHANGED <<ctorArg, client, ctorError, console, earlier, frames>>

\* get<Resource>(documentId, accessToken?)
getDocumentById(endpoint, documentId, accessToken) ==
    /\ client.kind = "OuraOAuth" /\ pc = "idle"
    /\ call' = [op |-> "getDocumentById", endpoint |-> endpoint \o "/" \o documentId,
                accessToken |-> accessToken, initialParams |-> NoParams]
    /\ OuraOAuth_fetchData(endpoint \o "/" \o documentId, NoParams, accessToken)
    /\ UNCHANGED <<ctorArg, client, ctorError, console, earlier, frames>>

getHeartrate(startDateTime, endDateTime, accessToken) ==
    /\ client.kind = "OuraOAuth" /\ pc = "idle"
    /\ call' = [op |-> "getHeartrate", endpoint |-> "heartrate", accessToken |-> accessToken,
                initialParams |-> Params([start_datetime |-> startDateTime, end_datetime |-> endDateTime])]
    /\ OuraOAuth_fetchData("heartrate",
                           Params([start_datetime |-> startDateTime, end_datetime |-> endDateTime]),
                           accessToken)
    /\ UNCHANGED <<ctorArg, client, ctorError, console, earlier, frames>>

getPersonalInfo(accessToken) ==
    /\ client.kind = "OuraOAuth" /\ pc = "idle"
    /\ call' = [op |-> "getPersonalInfo", endpoint |-> "personal_info", accessToken |-> accessToken,
                initialParams |-> NoParams]
    /\ OuraOAuth_fetchData("personal_info", NoParams, accessToken)
    /\ UNCHANGED <<ctorArg, client, ctorError, console, earlier, frames>>

\* the methods of the OAuth2 flow helper
FlowOps == {"generateAuthUrl", "exchangeCodeForToken", "refreshAccessToken", "revokeAccessToken"}

\* the facade methods that fetch user data
DataOps == {"getDocuments", "getDocumentById", "getHeartrate", "getPersonalInfo"}

\* the server answers a request with a usable cursor only MaxPages times
Served(response) ==
    Truthy(response.body.next_token) => Len(requests) < MaxPages

\* getAll with its loop wrapped in a try whose catch returns what was
\* accumulated so far
getAllResume_returnsPartial(response) ==
    /\ client.kind = "OuraOAuth" /\ pc = "fetching" /\ call.op \in DataOps
    /\ Served(response)
    /\ responses' = Append(responses, response)
    /\ LET req == requests[Len(requests)]
           got == OuraBase_get(req.base, req.path, response)
           it == OuraBase_getAll_body(allData, got.value)
       IN
       IF got.threw
       THEN /\ outcome' = ReturnArray(allData)
            /\ pc' = "done"
            /\ UNCHANGED <<params, allData, nextToken, requests>>
       ELSE IF it.returned
       THEN /\ outcome' = ReturnObject(it.ret)
            /\ pc' = "done"
            /\ UNCHANGED <<params, allData, nextToken, requests>>
       ELSE /\ allData' = it.allData
            /\ nextToken' = it.nextToken
            /\ params' = it.params
            /\ IF it.again
               THEN /\ requests' = Append(requests,
                                          OuraBase_get_fetch(client, call.accessToken, call.endpoint, it.params))
                    /\ UNCHANGED <<pc, outcome>>
               ELSE /\ outcome' = ReturnArray(it.allData)
                    /\ pc' = "done"
                    /\ UNCHANGED requests
    /\ UNCHANGED <<ctorArg, client, ctorError, console, earlier, frames, call>>

\* OuraBase.getAll resumed by the response to its pending #get
getAllResume(response) ==
    /\ client.kind = "OuraOAuth" /\ pc = "fetching" /\ call.op \in DataOps
    /\ Served(response)
    /\ responses' = Append(responses, response)
    /\ LET req == requests[Len(requests)]
           got == OuraBase_get(req.base, req.path, response)
           it == OuraBase_getAll_body(allData, got.value)
       IN
       IF got.threw
       THEN /\ outcome' = Throw(got.err)
            /\ pc' = "done"
            /\ UNCHANGED <<params, allData, nextToken, requests>>
       ELSE IF it.returned
       THEN /\ outcome' = ReturnObject(it.ret)
            /\ pc' = "done"
            /\ UNCHANGED <<params, allData, nextToken, requests>>
       ELSE /\ allData' = it.allData
            /\ nextToken' = it.nextToken
            /\ params' = it.params
            /\ IF it.again
               THEN /\ requests' = Append(requests,
                                          OuraBase_get_fetch(client, call.accessToken, call.endpoint, it.params))
                    /\ UNCHANGED <<pc, outcome>>
               ELSE /\ outcome' = ReturnArray(it.allData)
                    /\ pc' = "done"
                    /\ UNCHANGED requests
    /\ UNCHANGED <<ctorArg, client, ctorError, console, earlier, frames, call>>

(***************************************************************************)
(* OuraOAuth: the OAuth2 flow helper (utilsOAuth.ts)                       *)
(***************************************************************************)
\* a string without reserved characters, as a sequence of pieces
Str(v) == IF v = "" THEN <<>> ELSE <<v>>

\* the application/x-www-form-urlencoded serialiser on one piece: a space
\* becomes "+", the other reserved characters are percent-encoded, a run
\* of unreserved characters is left alone
urlencode(c) ==
    CASE c = " " -> "+" [] c = "&" -> "%26" [] c = "=" -> "%3D" [] c = "+" -> "%2B"
      [] c = ":" -> "%3A" [] c = "/" -> "%2F" [] c = "?" -> "%3F" [] OTHER -> c

\* URLSearchParams.toString(): name=value pairs in insertion order, joined by "&"
RECURSIVE URLSearchParams_toString(_)
URLSearchParams_toString(pairs) ==
    IF pairs = <<>> THEN <<>>
    ELSE LET p == Head(pairs)
             one == <<p.name, "=">> \o [i \in 1..Len(p.value) |-> urlencode(p.value[i])]
         IN IF Len(pairs) = 1 THEN one
            ELSE one \o <<"&">> \o URLSearchParams_toString(Tail(pairs))

\* Array.prototype.join(separator) on an array of words
RECURSIVE join(_, _)
join(array, separator) ==
    IF array = <<>> THEN <<>>
    ELSE IF Len(array) = 1 THEN <<array[1]>>
    ELSE <<array[1], separator>> \o join(Tail(array), separator)

\* generateAuthUrl calling scopes.join() with the default separator
generateAuthUrl_defaultJoin(clientId, scopes, redirectUri, state) ==
    <<oauthAuthorize, "?">> \o
    URLSearchParams_toString(<<
        [name |-> "response_type", value |-> Str("code")],
        [name |-> "client_id", value |-> Str(clientId)],
        [name |-> "redirect_uri", value |-> IF Truthy(redirectUri) THEN Str(redirectUri) ELSE <<>>],
        [name |-> "scope", value |-> join(scopes, ",")],
        [name |-> "state", value |-> IF state.given /\ state.str # <<>> THEN state.str ELSE <<>>] >>)

\* generateAuthUrl(clientId, scopes, redirectUri, state) of utilsOAuth
generateAuthUrl(clientId, scopes, redirectUri, state) ==
    <<oauthAuthorize, "?">> \o
    URLSearchParams_toString(<<
        [name |-> "response_type", value |-> Str("code")],
        [name |-> "client_id", value |-> Str(clientId)],
        [name |-> "redirect_uri", value |-> IF Truthy(redirectUri) THEN Str(redirectUri) ELSE <<>>],
        [name |-> "scope", value |-> join(scopes, " ")],
        [name |-> "state", value |-> IF state.given /\ state.str # <<>> THEN state.str ELSE <<>>] >>)

\* OuraOAuth.generateAuthUrl(scopes, state?): synchronous, no fetch
OuraOAuth_generateAuthUrl(scopes, state) ==
    /\ client.kind = "OuraOAuth" /\ pc = "idle"
    /\ call' = [op |-> "generateAuthUrl", endpoint |-> oauthAuthorize, accessToken |-> Undef,
                initialParams |-> NoParams, scopes |-> scopes, state |-> state]
    /\ outcome' = ReturnString(generateAuthUrl(client.clientId, scopes, client.redirectUri, state))
    /\ pc' = "done"
    /\ UNCHANGED <<ctorArg, client, ctorError, console, earlier, frames, params, allData, nextToken,
                   requests, responses>>

\* the fetch() call of getTokens; the body is the Record given to URLSearchParams
getTokens_fetch(clientId, clientSecret, code, redirectUri) ==
    [method |-> "POST", base |-> oauthToken, path |-> "", qs |-> NoParams,
     headers |-> [ContentType |-> "application/x-www-form-urlencoded"],
     body |-> Params([grant_type |-> "authorization_code", code |-> code,
                      redirect_uri |-> IF Truthy(redirectUri) THEN redirectUri ELSE "",
                      client_id |-> clientId, client_secret |-> clientSecret])]

\* the part of getTokens after the fetch; response.text() is the body as sent
getTokens(response) ==
    IF ~ok(response.status)
    THEN [threw |-> TRUE, value |-> NotJSON,
          err |-> APIError("APIError", "Failed to exchange code for token.", response.status,
                           response.statusText, response.body, <<oauthToken>>, "POST")]
    ELSE IF response.body.json
    THEN [threw |-> FALSE, value |-> response.body, err |-> NoError]
    ELSE [threw |-> TRUE, value |-> NotJSON, err |-> SyntaxError]

\* the fetch() call of refreshToken
refreshToken_fetch(clientId, clientSecret, suppliedRefreshToken) ==
    [method |-> "POST", base |-> oauthToken, path |-> "", qs |-> NoParams,
     headers |-> [ContentType |-> "application/x-www-form-urlencoded"],
     body |-> Params([grant_type |-> "refresh_token", refresh_token |-> suppliedRefreshToken,
                      client_id |-> clientId, client_secret |-> clientSecret])]

\* the part of refreshToken after the fetch
refreshToken(response) ==
    IF ~ok(response.status)
    THEN [threw |-> TRUE, value |-> NotJSON,
          err |-> APIError("APIError", "Failed to refresh token.", response.status,
                           response.statusText, response.body, <<oauthToken>>, "POST")]
    ELSE IF response.body.json
    THEN [threw |-> FALSE, value |-> response.body, err |-> NoError]
    ELSE [threw |-> TRUE, value |-> NotJSON, err |-> SyntaxError]

\* the fetch() call of revokeToken: the token is interpolated into the URL
revokeToken_fetch(accessToken) ==
    [method |-> "POST", base |-> oauthRevokeToken, path |-> "",
     qs |-> Params([access_token |-> accessToken]),
     headers |-> <<>>,
     body |-> NoParams]

\* revokeToken reporting the endpoint without its query string
revokeToken_urlWithoutToken(accessToken, response) ==
    IF ~ok(response.status)
    THEN [threw |-> TRUE, value |-> FALSE,
          err |-> APIError("APIError", "Failed to revoke token.", response.status,
                           response.statusText, response.body, <<oauthRevokeToken>>, "POST")]
    ELSE [threw |-> FALSE, value |-> TRUE, err |-> NoError]

\* revokeToken resolving with response.ok instead of throwing
revokeToken_returnsOk(accessToken, response) ==
    [threw |-> FALSE, value |-> ok(response.status), err |-> NoError]

\* the part of revokeToken after the fetch
revokeToken(accessToken, response) ==
    IF ~ok(response.status)
    THEN [threw |-> TRUE, value |-> FALSE,
          err |-> APIError("APIError", "Failed to revoke token.", response.status,
                           response.statusText, response.body,
                           <<oauthRevokeToken, "?access_token=", accessToken>>, "POST")]
    ELSE [threw |-> FALSE, value |-> TRUE, err |-> NoError]

\* a flow-helper method up to the await of its fetch
OuraOAuth_helper_begin(op, accessToken, request) ==
    /\ client.kind = "OuraOAuth" /\ pc = "idle"
    /\ call' = [op |-> op, endpoint |-> request.base, accessToken |-> accessToken,
                initialParams |-> NoParams]
    /\ requests' = Append(requests, request)
    /\ pc' = "fetching"
    /\ UNCHANGED <<ctorArg, client, ctorError, console, earlier, frames, params, allData, nextToken,
                   responses, outcome>>

exchangeCodeForToken(code) ==
    OuraOAuth_helper_begin("exchangeCodeForToken", Undef,
                           getTokens_fetch(client.clientId, client.clientSecret, code, client.redirectUri))

refreshAccessToken(suppliedRefreshToken) ==
    OuraOAuth_helper_begin("refreshAccessToken", Undef,
                           refreshToken_fetch(client.clientId, client.clientSecret, suppliedRefreshToken))

revokeAccessToken(accessToken) ==
    OuraOAuth_helper_begin("revokeAccessToken", accessToken, revokeToken_fetch(accessToken))

\* getTokens resumed, with the facade keeping the issued token on the instance
getTokensResume_storesToken(response) ==
    /\ client.kind = "OuraOAuth" /\ pc = "fetching" /\ call.op = "exchangeCodeForToken"
    /\ responses' = Append(responses, response)
    /\ LET got == getTokens(response) IN
       /\ outcome' = IF got.threw THEN Throw(got.err) ELSE ReturnObject(got.value)
       /\ client' = IF got.threw THEN client
                     ELSE [kind |-> "OuraOAuth", useSandbox |-> client.useSandbox,
                           clientId |-> client.clientId, clientSecret |-> client.clientSecret,
                           redirectUri |-> client.redirectUri, accessToken |-> "issued"]
    /\ pc' = "done"
    /\ UNCHANGED <<ctorArg, ctorError, console, earlier, frames, call, params, allData, nextToken, requests>>

\* getTokens resumed by the response to its fetch
getTokensResume(response) ==
    /\ client.kind = "OuraOAuth" /\ pc = "fetching" /\ call.op = "exchangeCodeForToken"
    /\ responses' = Append(responses, response)
    /\ LET got == getTokens(response) IN
       outcome' = IF got.threw THEN Throw(got.err) ELSE ReturnObject(got.value)
    /\ pc' = "done"
    /\ UNCHANGED <<ctorArg, client, ctorError, console, earlier, frames, call, params, allData, nextToken, requests>>

\* refreshToken resumed by the response to its fetch
refreshTokenResume(response) ==
    /\ client.kind = "OuraOAuth" /\ pc = "fetching" /\ call.op = "refreshAccessToken"
    /\ responses' = Append(responses, response)
    /\ LET got == refreshToken(response) IN
       outcome' = IF got.threw THEN Throw(got.err) ELSE ReturnObject(got.value)
    /\ pc' = "done"
    /\ UNCHANGED <<ctorArg, client, ctorError, console, earlier, frames, call, params, allData, nextToken, requests>>

\* revokeToken resumed by the response to its fetch
revokeTokenResume(response) ==
    /\ client.kind = "OuraOAuth" /\ pc = "fetching" /\ call.op = "revokeAccessToken"
    /\ responses' = Append(responses, response)
    /\ LET got == revokeToken(call.accessToken, response) IN
       outcome' = IF got.threw THEN Throw(got.err) ELSE ReturnBoolean(got.value)
    /\ pc' = "done"
    /\ UNCHANGED <<ctorArg, client, ctorError, console, earlier, frames, call, params, allData, nextToken, requests>>

(***************************************************************************)
(* Oura: the static-token client with its own #get and #getAll             *)
(***************************************************************************)
\* isValidDate(dateString): new Date(dateString) is a valid date
isValidDate(dateString) == dateString \in ParseableDates

\* the keys #get validates, in the insertion order of the facade's params
DateKeys == <<"start_date", "end_date", "start_datetime", "end_datetime">>

\* new ValidationError(message): the one-argument class of this client
ValidationError(key, value) ==
    [name |-> "ValidationError", message |-> "Invalid date format for " \o key \o ": " \o value]

\* the validation loop testing only the start of the range
Oura_get_validate_startOnly(qs) ==
    LET keys == <<"start_date", "start_datetime">>
        bad == {i \in 1..Len(keys) : keys[i] \in DOMAIN qs.kv /\ ~isValidDate(qs.kv[keys[i]])}
        first == CHOOSE i \in bad : \A j \in bad : i <= j
    IN IF bad = {} THEN [threw |-> FALSE, err |-> NoError]
       ELSE [threw |-> TRUE, err |-> ValidationError(keys[first], qs.kv[keys[first]])]

\* the validation loop at the head of Oura.#get: the first invalid entry throws
Oura_get_validate(qs) ==
    LET bad == {i \in 1..Len(DateKeys) :
                  DateKeys[i] \in DOMAIN qs.kv /\ ~isValidDate(qs.kv[DateKeys[i]])}
        first == CHOOSE i \in bad : \A j \in bad : i <= j
    IN IF bad = {} THEN [threw |-> FALSE, err |-> NoError]
       ELSE [threw |-> TRUE, err |-> ValidationError(DateKeys[first], qs.kv[DateKeys[first]])]

\* the fetch() call of Oura.#get
Oura_get_fetch(self, url, qs) ==
    [method |-> "GET",
     base |-> self.baseUrlv2,
     path |-> url,
     qs |-> qs,
     headers |-> [Authorization |-> <<"Bearer", self.accessToken>>],
     body |-> NoParams]

\* the part of Oura.#get after the fetch
Oura_get(baseUrl, url, response) ==
    IF ok(response.status)
    THEN IF response.body.json
         THEN [threw |-> FALSE, value |-> response.body, err |-> NoError]
         ELSE [threw |-> TRUE, value |-> NotJSON, err |-> SyntaxError]
    ELSE [threw |-> TRUE, value |-> NotJSON,
          err |-> APIError("APIError", "Problem fetching data.", response.status,
                           response.statusText, ErrorDetail(response.body), <<baseUrl, url>>, "GET")]

\* one pass of the do-while body of Oura.#getAll; [].concat(undefined) is [undefined]
Oura_getAll_body(data, response) ==
    [allData |-> IF response.hasData THEN data \o response.data ELSE Append(data, Undef),
     nextToken |-> response.next_token,
     params |-> IF Truthy(response.next_token)
                THEN Params([next_token |-> response.next_token]) ELSE NoParams,
     again |-> Truthy(response.next_token)]

\* Oura.#getAll up to its first await: the locals, then #get validates and fetches
Oura_getAll(endpoint, initialParams) ==
    /\ allData' = <<>>
    /\ nextToken' = Null
    /\ params' = initialParams
    /\ LET v == Oura_get_validate(initialParams) IN
       IF v.threw
       THEN /\ outcome' = Throw(v.err)
            /\ pc' = "done"
            /\ UNCHANGED <<requests, responses>>
       ELSE /\ requests' = Append(requests, Oura_get_fetch(client, endpoint, initialParams))
            /\ pc' = "fetching"
            /\ UNCHANGED <<responses, outcome>>

\* Oura.get<Resource>Documents(startDate, endDate)
Oura_getDocuments(endpoint, startDate, endDate) ==
    /\ client.kind = "Oura" /\ pc = "idle"
    /\ call' = [op |-> "getDocuments", endpoint |-> endpoint, accessToken |-> Undef,
                initialParams |-> Params([start_date |-> startDate, end_date |-> endDate])]
    /\ Oura_getAll(endpoint, Params([start_date |-> startDate, end_date |-> endDate]))
    /\ UNCHANGED <<ctorArg, client, ctorError, console, earlier, frames>>

\* Oura.get<Resource>(documentId)
Oura_getDocumentById(endpoint, documentId) ==
    /\ client.kind = "Oura" /\ pc = "idle"
    /\ call' = [op |-> "getDocumentById", endpoint |-> endpoint \o "/" \o documentId,
                accessToken |-> Undef, initialParams |-> NoParams]
    /\ Oura_getAll(endpoint \o "/" \o documentId, NoParams)
    /\ UNCHANGED <<ctorArg, client, ctorError, console, earlier, frames>>

Oura_getHeartrate(startDateTime, endDateTime) ==
    /\ client.kind = "Oura" /\ pc = "idle"
    /\ call' = [op |-> "getHeartrate", endpoint |-> "heartrate", accessToken |-> Undef,
                initialParams |-> Params([start_datetime |-> startDateTime, end_datetime |-> endDateTime])]
    /\ Oura_getAll("heartrate", Params([start_datetime |-> startDateTime, end_datetime |-> endDateTime]))
    /\ UNCHANGED <<ctorArg, client, ctorError, console, earlier, frames>>

Oura_getPersonalInfo ==
    /\ client.kind = "Oura" /\ pc = "idle"
    /\ call' = [op |-> "getPersonalInfo", endpoint |-> "personal_info", accessToken |-> Undef,
                initialParams |-> NoParams]
    /\ Oura_getAll("personal_info", NoParams)
    /\ UNCHANGED <<ctorArg, client, ctorError, console, earlier, frames>>

\* Oura.#getAll resumed by the response to its pending #get
Oura_getAllResume(response) ==
    /\ client.kind = "Oura" /\ pc = "fetching"
    /\ Served(response)
    /\ responses' = Append(responses, response)
    /\ LET req == requests[Len(requests)]
           got == Oura_get(req.base, req.path, response)
           it == Oura_getAll_body(allData, got.value)
       IN
       IF got.threw
       THEN /\ outcome' = Throw(got.err)
            /\ pc' = "done"
            /\ UNCHANGED <<params, allData, nextToken, requests>>
       ELSE /\ allData' = it.allData
            /\ nextToken' = it.nextToken
            /\ params' = it.params
            /\ IF it.again
               THEN \* the next #get: only next_token in qs, nothing to validate
                    /\ requests' = Append(requests, Oura_get_fetch(client, call.endpoint, it.params))
                    /\ UNCHANGED <<pc, outcome>>
               ELSE /\ outcome' = ReturnArray(it.allData)
                    /\ pc' = "done"
                    /\ UNCHANGED requests
    /\ UNCHANGED <<ctorArg, client, ctorError, console, earlier, frames, call>>

(***************************************************************************)
(* Oura.ts: the earlier static-token client, a string token, no sandbox,   *)
(* no pagination: every facade method returns what #get returns            *)
(***************************************************************************)
LegacyOura_constructor(accessToken) ==
    IF ~Truthy(accessToken)
    THEN [threw |-> TRUE, err |-> MissingTokenError, self |-> NoClient]
    ELSE [threw |-> FALSE, err |-> NoError,
          self |-> [kind |-> "LegacyOura", accessToken |-> accessToken, baseUrlv2 |-> baseV2]]

NewLegacyOura(accessToken) ==
    /\ client = NoClient /\ ctorError = NoError
    /\ ctorArg' = [class |-> "LegacyOura", arg |-> [accessToken |-> accessToken]]
    /\ LET r == LegacyOura_constructor(accessToken) IN
        /\ client' = r.self
        /\ ctorError' = r.err
    /\ UNCHANGED <<callVars, earlier, frames>>

\* the part of #get after the fetch; log = what the error branch hands to
\* console.log: the parsed error body, when the body parses
LegacyOura_get(baseUrl, url, response) ==
    IF ok(response.status)
    THEN IF response.body.json
         THEN [threw |-> FALSE, value |-> response.body, err |-> NoError, log |-> <<>>]
         ELSE [threw |-> TRUE, value |-> NotJSON, err |-> SyntaxError, log |-> <<>>]
    ELSE [threw |-> TRUE, value |-> NotJSON,
          err |-> APIError("APIError", "Problem fetching data.", response.status,
                           response.statusText, ErrorDetail(response.body), <<baseUrl, url>>, "GET"),
          log |-> IF response.body.json THEN <<response.body>> ELSE <<>>]

\* #get up to its await: the validation loop, then the fetch
LegacyOura_get_begin(op, url, qs) ==
    /\ client.kind = "LegacyOura" /\ pc = "idle"
    /\ call' = [op |-> op, endpoint |-> url, accessToken |-> Undef, initialParams |-> qs]
    /\ LET v == Oura_get_validate(qs) IN
       IF v.threw
       THEN /\ outcome' = Throw(v.err)
            /\ pc' = "done"
            /\ UNCHANGED requests
       ELSE /\ requests' = Append(requests, Oura_get_fetch(client, url, qs))
            /\ pc' = "fetching"
            /\ UNCHANGED outcome
    /\ UNCHANGED <<ctorArg, client, ctorError, params, allData, nextToken, responses, console, earlier, frames>>

LegacyOura_getDocuments(endpoint, startDate, endDate) ==
    LegacyOura_get_begin("getDocuments", endpoint, Params([start_date |-> startDate, end_date |-> endDate]))

LegacyOura_getDocumentById(endpoint, documentId) ==
    LegacyOura_get_begin("getDocumentById", endpoint \o "/" \o documentId, NoParams)

LegacyOura_getHeartrate(startDateTime, endDateTime) ==
    LegacyOura_get_begin("getHeartrate", "heartrate",
                         Params([start_datetime |-> startDateTime, end_datetime |-> endDateTime]))

LegacyOura_getPersonalInfo ==
    LegacyOura_get_begin("getPersonalInfo", "personal_info", NoParams)

\* #get resumed by the response to its fetch
LegacyOura_getResume(response) ==
    /\ client.kind = "LegacyOura" /\ pc = "fetching"
    /\ responses' = Append(responses, response)
    /\ LET req == requests[Len(requests)]
           got == LegacyOura_get(req.base, req.path, response)
       IN /\ outcome' = IF got.threw THEN Throw(got.err) ELSE ReturnObject(got.value)
          /\ console' = console \o got.log
    /\ pc' = "done"
    /\ UNCHANGED <<ctorArg, client, ctorError, earlier, frames, call, params, allData, nextToken, requests>>

(***************************************************************************)
(* Webhook: subscription management with client-id / client-secret headers *)
(***************************************************************************)
Webhook_constructor(clientId, clientSecret) ==
    IF ~Truthy(clientId)
    THEN [threw |-> TRUE, err |-> MissingClientIdError, self |-> NoClient]
    ELSE IF ~Truthy(clientSecret)
    THEN [threw |-> TRUE, err |-> MissingClientSecretError, self |-> NoClient]
    ELSE [threw |-> FALSE, err |-> NoError,
          self |-> [kind |-> "Webhook", clientId |-> clientId, clientSecret |-> clientSecret,
                    baseUrlv2 |-> webhookBase]]

NewWebhook(clientId, clientSecret) ==
    /\ client = NoClient /\ ctorError = NoError
    /\ ctorArg' = [class |-> "Webhook", arg |-> [clientId |-> clientId, clientSecret |-> clientSecret]]
    /\ LET r == Webhook_constructor(clientId, clientSecret) IN
        /\ client' = r.self
        /\ ctorError' = r.err
    /\ UNCHANGED <<callVars, earlier, frames>>

\* new APIError(message, statusCode, responseBody): the three-argument class
\* that Webhook.ts imports
WebhookAPIError(message, statusCode, responseBody) ==
    [name |-> "APIError", message |-> message, statusCode |-> statusCode, responseBody |-> responseBody]

\* JSON.stringify(body): members whose value is undefined are not serialised
JSONstringify(body) ==
    LET keys == {k \in DOMAIN body : body[k] # Undef}
    IN Params([k \in keys |-> body[k]])

\* the fetch() call of Webhook.#request; hasBody = a body argument was passed
Webhook_request_fetch(self, method, url, hasBody, body) ==
    [method |-> method,
     base |-> self.baseUrlv2,
     path |-> url,
     qs |-> NoParams,
     headers |-> IF method \in {"POST", "PUT"}
                 THEN [ContentType |-> "application/json",
                       xClientId |-> self.clientId, xClientSecret |-> self.clientSecret]
                 ELSE [xClientId |-> self.clientId, xClientSecret |-> self.clientSecret],
     body |-> IF method \in {"POST", "PUT"} /\ hasBody THEN JSONstringify(body) ELSE NoParams]

\* Webhook.#request parsing the body as JSON for every method
Webhook_request_alwaysJson(method, response) ==
    IF ok(response.status)
    THEN IF response.body.json
         THEN [threw |-> FALSE, text |-> FALSE, value |-> response.body, err |-> NoError]
         ELSE [threw |-> TRUE, text |-> FALSE, value |-> NotJSON, err |-> SyntaxError]
    ELSE [threw |-> TRUE, text |-> FALSE, value |-> NotJSON,
          err |-> WebhookAPIError("Problem with request.", response.status, response.statusText)]

\* Webhook.#request testing status < 400 instead of response.ok
Webhook_request_below400(method, response) ==
    IF response.status < 400
    THEN IF method = "DELETE"
         THEN [threw |-> FALSE, text |-> TRUE, value |-> response.body, err |-> NoError]
         ELSE IF response.body.json
         THEN [threw |-> FALSE, text |-> FALSE, value |-> response.body, err |-> NoError]
         ELSE [threw |-> TRUE, text |-> FALSE, value |-> NotJSON, err |-> SyntaxError]
    ELSE [threw |-> TRUE, text |-> FALSE, value |-> NotJSON,
          err |-> WebhookAPIError("Problem with request.", response.status, response.statusText)]

\* the part of Webhook.#request after the fetch
Webhook_request(method, response) ==
    IF ok(response.status)
    THEN IF method = "DELETE"
         THEN [threw |-> FALSE, text |-> TRUE, value |-> response.body, err |-> NoError]
         ELSE IF response.body.json
         THEN [threw |-> FALSE, text |-> FALSE, value |-> response.body, err |-> NoError]
         ELSE [threw |-> TRUE, text |-> FALSE, value |-> NotJSON, err |-> SyntaxError]
    ELSE [threw |-> TRUE, text |-> FALSE, value |-> NotJSON,
          err |-> WebhookAPIError("Problem with request.", response.status, response.statusText)]

\* Webhook.#request up to its await; args = the arguments of the facade method
Webhook_request_begin(op, args, method, url, hasBody, body) ==
    /\ client.kind = "Webhook" /\ pc = "idle"
    /\ call' = [op |-> op, endpoint |-> url, accessToken |-> Undef, initialParams |-> NoParams,
                method |-> method, args |-> args]
    /\ requests' = Append(requests, Webhook_request_fetch(client, method, url, hasBody, body))
    /\ pc' = "fetching"
    /\ UNCHANGED <<ctorArg, client, ctorError, console, earlier, frames, params, allData, nextToken, responses, outcome>>

listSubscriptions ==
    Webhook_request_begin("listSubscriptions", <<>>, "GET", "subscription", FALSE, <<>>)

getSubscription(id) ==
    Webhook_request_begin("getSubscription", [id |-> id], "GET", "subscription/" \o id, FALSE, <<>>)

createSubscription(callbackUrl, verificationToken, eventType, dataType) ==
    Webhook_request_begin("createSubscription",
                          [callback_url |-> callbackUrl, verification_token |-> verificationToken,
                           event_type |-> eventType, data_type |-> dataType],
                          "POST", "subscription", TRUE,
                          [callback_url |-> callbackUrl, verification_token |-> verificationToken,
                           event_type |-> eventType, data_type |-> dataType])

\* updateSubscription building the data object without the three deletes
updateSubscription_data_noDeletes(verificationToken, callbackUrl, eventType, dataType) ==
    [callback_url |-> callbackUrl, verification_token |-> verificationToken,
     event_type |-> eventType, data_type |-> dataType]

\* the data object of updateSubscription after its three conditional deletes
updateSubscription_data(verificationToken, callbackUrl, eventType, dataType) ==
    LET data == [callback_url |-> callbackUrl, verification_token |-> verificationToken,
                 event_type |-> eventType, data_type |-> dataType]
        deleted == (IF ~Truthy(callbackUrl) THEN {"callback_url"} ELSE {})
                   \cup (IF ~Truthy(eventType) THEN {"event_type"} ELSE {})
                   \cup (IF ~Truthy(dataType) THEN {"data_type"} ELSE {})
    IN [k \in (DOMAIN data) \ deleted |-> data[k]]

updateSubscription(id, verificationToken, callbackUrl, eventType, dataType) ==
    Webhook_request_begin("updateSubscription",
                          [id |-> id, verification_token |-> verificationToken,
                           callback_url |-> callbackUrl, event_type |-> eventType,
                           data_type |-> dataType],
                          "PUT", "subscription/" \o id, TRUE,
                          updateSubscription_data(verificationToken, callbackUrl, eventType, dataType))

deleteSubscription(id) ==
    Webhook_request_begin("deleteSubscription", [id |-> id], "DELETE", "subscription/" \o id, FALSE, <<>>)

renewSubscription(id) ==
    Webhook_request_begin("renewSubscription", [id |-> id], "PUT", "subscription/renew/" \o id, FALSE, <<>>)

\* Webhook.#request resumed by the response to its fetch
Webhook_requestResume(response) ==
    /\ client.kind = "Webhook" /\ pc = "fetching"
    /\ responses' = Append(responses, response)
    /\ LET got == Webhook_request(call.method, response) IN
       outcome' = IF got.threw THEN Throw(got.err)
                  ELSE IF got.text THEN ReturnText(got.value)
                  ELSE ReturnObject(got.value)
    /\ pc' = "done"
    /\ UNCHANGED <<ctorArg, client, ctorError, console, earlier, frames, call, params, allData, nextToken, requests>>

(***************************************************************************)
(* The state machine                                                       *)
(***************************************************************************)
\* The promise of the call has settled and the caller makes its next call
\* on the same instance: everything a call works on is local to the call,
\* the instance keeps only the private fields its constructor set.
Return ==
    /\ pc = "done"
    /\ earlier' = IF call.op \in FlowOps THEN "helper" ELSE "facade"
    /\ pc' = "idle"
    /\ call' = NoCall
    /\ params' = NoParams
    /\ allData' = <<>>
    /\ nextToken' = Null
    /\ requests' = <<>>
    /\ responses' = <<>>
    /\ outcome' = Pending
    /\ console' = <<>>
    /\ UNCHANGED <<ctorArg, client, ctorError, frames>>

Next ==
    \/ \E arg \in OuraArgs : NewOura(arg)
    \/ \E options \in OAuthOptions : NewOuraOAuth(options)
    \/ \E id \in CredArgs, secret \in CredArgs : NewWebhook(id, secret)
    \/ \E e \in Endpoints, sd \in DateArgs, ed \in DateArgs, t \in TokenArgs : getDocuments(e, sd, ed, t)
    \/ \E e \in Endpoints, id \in DocumentIds, t \in TokenArgs : getDocumentById(e, id, t)
    \/ \E sd \in DateArgs, ed \in DateArgs, t \in TokenArgs : getHeartrate(sd, ed, t)
    \/ \E t \in TokenArgs : getPersonalInfo(t)
    \/ \E r \in Responses : getAllResume(r)
    \/ \E sc \in ScopeArgs, st \in StateArgs : OuraOAuth_generateAuthUrl(sc, st)
    \/ \E c \in CodeArgs : exchangeCodeForToken(c)
    \/ \E t \in RefreshTokenArgs : refreshAccessToken(t)
    \/ \E t \in TokenArgs : revokeAccessToken(t)
    \/ \E r \in Responses : getTokensResume(r)
    \/ \E r \in Responses : refreshTokenResume(r)
    \/ \E r \in Responses : revokeTokenResume(r)
    \/ \E e \in Endpoints, sd \in DateArgs, ed \in DateArgs : Oura_getDocuments(e, sd, ed)
    \/ \E e \in Endpoints, id \in DocumentIds : Oura_getDocumentById(e, id)
    \/ \E sd \in DateArgs, ed \in DateArgs : Oura_getHeartrate(sd, ed)
    \/ Oura_getPersonalInfo
    \/ \E r \in Responses : Oura_getAllResume(r)
    \/ \E t \in TokenArgs : NewLegacyOura(t)
    \/ \E e \in Endpoints, sd \in DateArgs, ed \in DateArgs : LegacyOura_getDocuments(e, sd, ed)
    \/ \E e \in Endpoints, id \in DocumentIds : LegacyOura_getDocumentById(e, id)
    \/ \E sd \in DateArgs, ed \in DateArgs : LegacyOura_getHeartrate(sd, ed)
    \/ LegacyOura_getPersonalInfo
    \/ \E r \in Responses : LegacyOura_getResume(r)
    \/ listSubscriptions
    \/ \E id \in DocumentIds : getSubscription(id)
    \/ \E cb \in CallbackUrlArgs \ {Undef}, vt \in VerificationTokens,
          et \in EventTypeArgs \ {Undef}, dt \in DataTypeArgs \ {Undef} : createSubscription(cb, vt, et, dt)
    \/ \E id \in DocumentIds, vt \in VerificationTokens, cb \in CallbackUrlArgs,
          et \in EventTypeArgs, dt \in DataTypeArgs : updateSubscription(id, vt, cb, et, dt)
    \/ \E id \in DocumentIds : deleteSubscription(id)
    \/ \E id \in DocumentIds : renewSubscription(id)
    \/ \E r \in Responses : Webhook_requestResume(r)
    \/ Return

Spec == Init /\ [][Next]_vars

(***************************************************************************)
(* One user-data call on the OAuth client, every request answered          *)
(***************************************************************************)
NextFair ==
    \/ \E options \in OAuthOptions : NewOuraOAuth(options)
    \/ \E e \in Endpoints, sd \in DateArgs, ed \in DateArgs, t \in TokenArgs : getDocuments(e, sd, ed, t)
    \/ \E e \in Endpoints, id \in DocumentIds, t \in TokenArgs : getDocumentById(e, id, t)
    \/ \E sd \in DateArgs, ed \in DateArgs, t \in TokenArgs : getHeartrate(sd, ed, t)
    \/ \E t \in TokenArgs : getPersonalInfo(t)
    \/ \E r \in Responses : getAllResume(r)

\* the pending fetch of a running getAll is eventually answered
SpecFair == Init /\ [][NextFair]_vars /\ WF_vars(\E r \in Responses : getAllResume(r))

(***************************************************************************)
(* Concurrent calls on one instance                                        *)
(***************************************************************************)
\* Two user-data calls started on the same OAuth client without awaiting
\* the first.  allData, nextToken and params are locals of getAll, so each
\* call has its own in its frame; the frames share the instance only.
Frames == {"A", "B"}
FrameToken == [f \in Frames |-> IF f = "A" THEN "tokA" ELSE "tokB"]

\* what the server answers in this specification: pages of one item with a
\* null or an opaque cursor, a bare object, a failure
ConcResponses ==
    {[status |-> 200, statusText |-> statusText(200),
      body |-> [json |-> TRUE, hasData |-> TRUE, data |-> d, next_token |-> t, detail |-> Undef, isNull |-> FALSE]] :
        d \in {<<"a">>, <<"b">>}, t \in {Null, "t1"}}
    \cup
    {[status |-> 200, statusText |-> statusText(200),
      body |-> [json |-> TRUE, hasData |-> TRUE, data |-> <<"a">>, next_token |-> "t2", detail |-> Undef, isNull |-> FALSE]],
     [status |-> 200, statusText |-> statusText(200),
      body |-> [json |-> TRUE, hasData |-> FALSE, data |-> <<>>, next_token |-> Undef, detail |-> Undef, isNull |-> FALSE]],
     [status |-> 500, statusText |-> statusText(500), body |-> NotJSON]}

IdleFrame == [pc |-> "idle", call |-> NoCall, params |-> NoParams, allData |-> <<>>,
              nextToken |-> Null, requests |-> <<>>, responses |-> <<>>, outcome |-> Pending]

InitConc ==
    /\ ctorArg = NoArg
    /\ client = NoClient
    /\ ctorError = NoError
    /\ pc = "idle"
    /\ call = NoCall
    /\ params = NoParams
    /\ allData = <<>>
    /\ nextToken = Null
    /\ requests = <<>>
    /\ responses = <<>>
    /\ outcome = Pending
    /\ console = <<>>
    /\ earlier = "none"
    /\ frames = [f \in Frames |-> IdleFrame]

\* OuraOAuth.fetchData followed by getAll up to its first await, in frame f
Conc_fetchData(f, op, endpoint, prms, accessToken) ==
    /\ client.kind = "OuraOAuth" /\ frames[f].pc = "idle"
    /\ LET c == [op |-> op, endpoint |-> endpoint, accessToken |-> accessToken, initialParams |-> prms]
       IN
       frames' = [frames EXCEPT ![f] =
                    IF ~Truthy(accessToken)
                    THEN [pc |-> "done", call |-> c, params |-> NoParams, allData |-> <<>>,
                          nextToken |-> Null, requests |-> <<>>, responses |-> <<>>,
                          outcome |-> Throw(MissingTokenError)]
                    ELSE [pc |-> "fetching", call |-> c, params |-> prms, allData |-> <<>>,
                          nextToken |-> Null,
                          requests |-> <<OuraBase_get_fetch(client, accessToken, endpoint, prms)>>,
                          responses |-> <<>>, outcome |-> Pending]]
    /\ UNCHANGED <<ctorArg, client, ctorError, callVars, earlier>>

Conc_getDocuments(f, endpoint, startDate, endDate, accessToken) ==
    Conc_fetchData(f, "getDocuments", endpoint,
                   Params([start_date |-> startDate, end_date |-> endDate]), accessToken)

Conc_getPersonalInfo(f, accessToken) ==
    Conc_fetchData(f, "getPersonalInfo", "personal_info", NoParams, accessToken)

ConcServed(f, response) ==
    Truthy(response.body.next_token) => Len(frames[f].requests) < MaxPages

\* getAll resumed in frame f, with one accumulator for all the calls on the
\* instance (allData kept as a field instead of a local)
Conc_getAllResume_sharedData(f, response) ==
    /\ client.kind = "OuraOAuth" /\ frames[f].pc = "fetching"
    /\ ConcServed(f, response)
    /\ LET fr == frames[f]
           req == fr.requests[Len(fr.requests)]
           got == OuraBase_get(req.base, req.path, response)
           it == OuraBase_getAll_body(fr.allData, got.value)
           rs == Append(fr.responses, response)
           mine ==
             IF got.threw
             THEN [fr EXCEPT !.responses = rs, !.outcome = Throw(got.err), !.pc = "done"]
             ELSE IF it.returned
             THEN [fr EXCEPT !.responses = rs, !.outcome = ReturnObject(it.ret), !.pc = "done"]
             ELSE IF it.again
             THEN [fr EXCEPT !.responses = rs, !.allData = it.allData, !.nextToken = it.nextToken,
                             !.params = it.params,
                             !.requests = Append(fr.requests,
                                OuraBase_get_fetch(client, fr.call.accessToken, fr.call.endpoint, it.params))]
             ELSE [fr EXCEPT !.responses = rs, !.allData = it.allData, !.nextToken = it.nextToken,
                             !.params = it.params, !.outcome = ReturnArray(it.allData), !.pc = "done"]
       IN
       frames' = [g \in Frames |->
                    IF g = f THEN mine
                    ELSE IF got.threw \/ it.returned \/ frames[g].pc # "fetching" THEN frames[g]
                    ELSE [frames[g] EXCEPT !.allData = it.allData]]
    /\ UNCHANGED <<ctorArg, client, ctorError, callVars, earlier>>

\* OuraBase.getAll resumed in frame f by the response to its pending #get
Conc_getAllResume(f, response) ==
    /\ client.kind = "OuraOAuth" /\ frames[f].pc = "fetching"
    /\ ConcServed(f, response)
    /\ LET fr == frames[f]
           req == fr.requests[Len(fr.requests)]
           got == OuraBase_get(req.base, req.path, response)
           it == OuraBase_getAll_body(fr.allData, got.value)
           rs == Append(fr.responses, response)
       IN
       frames' = [frames EXCEPT ![f] =
             IF got.threw
             THEN [fr EXCEPT !.responses = rs, !.outcome = Throw(got.err), !.pc = "done"]
             ELSE IF it.returned
             THEN [fr EXCEPT !.responses = rs, !.outcome = ReturnObject(it.ret), !.pc = "done"]
             ELSE IF it.again
             THEN [fr EXCEPT !.responses = rs, !.allData = it.allData, !.nextToken = it.nextToken,
                             !.params = it.params,
                             !.requests = Append(fr.requests,
                                OuraBase_get_fetch(client, fr.call.accessToken, fr.call.endpoint, it.params))]
             ELSE [fr EXCEPT !.responses = rs, !.allData = it.allData, !.nextToken = it.nextToken,
                             !.params = it.params, !.outcome = ReturnArray(it.allData), !.pc = "done"]]
    /\ UNCHANGED <<ctorArg, client, ctorError, callVars, earlier>>

NextConc ==
    \/ \E options \in OAuthOptions : NewOuraOAuth(options)
    \/ \E f \in Frames, e \in Endpoints, d \in ParseableDates :
          \E t \in {Undef, FrameToken[f]} : Conc_getDocuments(f, e, d, d, t)
    \/ \E f \in Frames : \E t \in {Undef, FrameToken[f]} : Conc_getPersonalInfo(f, t)
    \/ \E f \in Frames, r \in ConcResponses : Conc_getAllResume(f, r)

SpecConc == InitConc /\ [][NextConc]_vars

(***************************************************************************)
(* Properties                                                              *)
(***************************************************************************)
lastResp == responses[Len(responses)]

\* a user-data call is running or has settled on the OAuth client
OAuthData == client.kind = "OuraOAuth" /\ call.op \in DataOps

\* the clients that fetch user data through an aggregator
DataClient == OAuthData \/ client.kind = "Oura"

\* a successful page: 2xx, JSON, with a data array
IsPage(r) == ok(r.status) /\ r.body.json /\ r.body.hasData

\* a successful bare object: 2xx, JSON, no data member
IsObject(r) == ok(r.status) /\ r.body.json /\ ~r.body.hasData

RECURSIVE ConcatData(_)
ConcatData(rs) == IF rs = <<>> THEN <<>> ELSE rs[1].body.data \o ConcatData(Tail(rs))

Raised(name) == pc = "done" /\ outcome.kind = "error" /\ outcome.err.name = name

\* C1 as stated: after k successful pages of which all but the last carry a
\* non-null next_token, the aggregator has asked for page k+1 when the last
\* cursor is non-null, and has returned the concatenation of the k data
\* arrays after exactly k requests when the last cursor is null.
C1_Original ==
    (/\ DataClient /\ responses # <<>>
     /\ \A i \in 1..Len(responses) : IsPage(responses[i])
     /\ \A i \in 1..(Len(responses) - 1) : responses[i].body.next_token # Null)
    => IF lastResp.body.next_token # Null
       THEN pc = "fetching" /\ Len(requests) = Len(responses) + 1
       ELSE /\ pc = "done"
            /\ outcome = ReturnArray(ConcatData(responses))
            /\ Len(requests) = Len(responses)

\* C1 amended: pagination aggregation for pages 1..N-1 carrying a non-null,
\* non-empty next_token and page N carrying null: after every such page
\* before the last the aggregator has issued exactly one more request, and
\* after page N it has returned exactly the concatenation of the N data
\* arrays, in page and element order, after exactly N requests.
C1_Aggregation ==
    (/\ DataClient /\ responses # <<>>
     /\ \A i \in 1..Len(responses) : IsPage(responses[i])
     /\ \A i \in 1..(Len(responses) - 1) : Truthy(responses[i].body.next_token))
    => /\ Truthy(lastResp.body.next_token)
          => pc = "fetching" /\ Len(requests) = Len(responses) + 1
       /\ lastResp.body.next_token = Null
          => /\ pc = "done"
             /\ outcome = ReturnArray(ConcatData(responses))
             /\ Len(requests) = Len(responses)

C1_Witness ==
    /\ client.kind = "OuraOAuth" /\ call.op = "getDocuments" /\ pc = "done"
    /\ Len(responses) = 3 /\ Len(requests) = 3
    /\ lastResp.body.next_token = Null
    /\ outcome = ReturnArray(<<"b", "a", "a", "b", "a">>)

\* C2: cursor echo.  Request 1 carries the caller's initial parameters and
\* every later request i carries exactly one query parameter, next_token,
\* equal to the next_token of response i-1.
C2_CursorEcho ==
    (DataClient /\ requests # <<>>)
    => /\ requests[1].qs = call.initialParams
       /\ \A i \in 2..Len(requests) :
             /\ i - 1 <= Len(responses)
             /\ responses[i - 1].body.next_token \notin {Null, Undef}
             /\ requests[i].qs = Params([next_token |-> responses[i - 1].body.next_token])

C2_Witness ==
    /\ client.kind = "OuraOAuth" /\ call.op = "getDocuments"
    /\ Len(requests) = 3
    /\ requests[1].qs = Params([start_date |-> "2023-01-01", end_date |-> "2023-01-01"])
    /\ requests[2].qs = Params([next_token |-> "t1"])
    /\ requests[3].qs = Params([next_token |-> "t2"])

\* C3: singleton through OuraBase.getAll.  When the first response is a
\* parsed body without a data member, the call has returned that body
\* itself, not an array, and exactly one request was issued.
C3_Singleton ==
    (OAuthData /\ responses # <<>> /\ IsObject(responses[1]))
    => /\ pc = "done"
       /\ outcome = ReturnObject(responses[1].body)
       /\ Len(requests) = 1

C3_Witness ==
    /\ client.kind = "OuraOAuth" /\ call.op = "getPersonalInfo"
    /\ responses # <<>> /\ IsObject(responses[1])
    /\ responses[1].body.next_token = "t1"
    /\ outcome.kind = "object"

\* C4 as stated: a by-id or personal-info call on the static-token client
\* answered with a bare object returns that object after one request.
C4_Original ==
    (/\ client.kind = "Oura" /\ call.op \in {"getDocumentById", "getPersonalInfo"}
     /\ responses # <<>> /\ IsObject(responses[1]))
    => /\ pc = "done"
       /\ outcome = ReturnObject(responses[1].body)
       /\ Len(requests) = 1

\* what OuraBase.#get returned became visible: a page's data was appended
\* to the accumulator, a bare object became the result
Returned(r) ==
    /\ outcome.kind # "error"
    /\ IF r.body.hasData THEN allData = ConcatData(responses)
       ELSE outcome = ReturnObject(r.body)

RaisedAPI(name, s) ==
    /\ Raised(name)
    /\ outcome.err.statusCode = s
    /\ outcome.err.method = "GET"

\* C5 as stated: 400 raises ValidationError, 429 RateLimitExceeded, any
\* other non-2xx APIError, with statusCode s and method GET; every 2xx
\* raises nothing and returns the parsed JSON.
C5_Original ==
    (OAuthData /\ responses # <<>>)
    => LET s == lastResp.status IN
       /\ s = 400 => RaisedAPI("ValidationError", s)
       /\ s = 429 => RaisedAPI("RateLimitExceeded", s)
       /\ (~ok(s) /\ s \notin {400, 429}) => RaisedAPI("APIError", s)
       /\ ok(s) => Returned(lastResp)

\* C5 amended: the same mapping for non-2xx statuses; a 2xx response whose
\* body parses as JSON raises nothing and returns the parsed JSON, and a
\* 2xx response whose body is not JSON raises the parser's SyntaxError.
C5_ErrorKinds ==
    (OAuthData /\ responses # <<>>)
    => LET s == lastResp.status IN
       /\ s = 400 => RaisedAPI("ValidationError", s)
       /\ s = 429 => RaisedAPI("RateLimitExceeded", s)
       /\ (~ok(s) /\ s \notin {400, 429}) => RaisedAPI("APIError", s)
       /\ (ok(s) /\ lastResp.body.json) => Returned(lastResp)
       /\ (ok(s) /\ ~lastResp.body.json) => Raised("SyntaxError")

C5_Witness ==
    /\ OAuthData /\ responses # <<>>
    /\ lastResp.status = 429
    /\ outcome.kind = "error" /\ outcome.err.name = "RateLimitExceeded"
    /\ outcome.err.statusCode = 429

\* C6 as stated: on every request path (OuraBase.#get, Oura.#get,
\* Webhook.#request) a 429 raises RateLimitExceeded and a 400 raises
\* ValidationError.
C6_Original ==
    ((OAuthData \/ client.kind \in {"Oura", "Webhook"}) /\ responses # <<>>)
    => /\ lastResp.status = 429 => Raised("RateLimitExceeded")
       /\ lastResp.status = 400 => Raised("ValidationError")

\* C6 amended: only OuraBase.#get distinguishes 429 (RateLimitExceeded) and
\* 400 (ValidationError); Oura.#get and Webhook.#request raise the generic
\* APIError for every non-2xx response, 400 and 429 included.
C6_PerPath ==
    (responses # <<>>)
    => /\ OAuthData
          => /\ lastResp.status = 429 => Raised("RateLimitExceeded")
             /\ lastResp.status = 400 => Raised("ValidationError")
       /\ client.kind \in {"Oura", "Webhook"}
          => (~ok(lastResp.status)
              => Raised("APIError") /\ outcome.err.statusCode = lastResp.status)

C6_Witness ==
    /\ client.kind = "Webhook" /\ responses # <<>>
    /\ lastResp.status = 429
    /\ outcome.kind = "error" /\ outcome.err.name = "APIError"

\* C7: vendor detail.  For every non-2xx response to OuraBase.#get the
\* raised error's detail is the body's detail field when the body is JSON
\* with one, and "No details" when the body is not JSON.
C7_Detail ==
    (OAuthData /\ responses # <<>> /\ ~ok(lastResp.status))
    => /\ outcome.kind = "error"
       /\ outcome.err.name \in {"ValidationError", "RateLimitExceeded", "APIError"}
       /\ (lastResp.body.json /\ lastResp.body.detail # Undef)
          => outcome.err.detail = lastResp.body.detail
       /\ ~lastResp.body.json => outcome.err.detail = "No details"

C7_Witness ==
    /\ OAuthData /\ responses # <<>>
    /\ lastResp.status = 500 /\ ~lastResp.body.json
    /\ outcome.kind = "error" /\ outcome.err.detail = "No details"

\* C8: static-token construction.  An empty or absent token with
\* useSandbox unset or false raises MissingTokenError and yields no
\* client; useSandbox = true with no token yields a client.
C8_StaticConstruction ==
    (ctorArg.class = "Oura")
    => /\ (~Truthy(ctorArg.arg.accessToken) /\ ctorArg.arg.useSandbox \in {"unset", "false"})
          => ctorError = MissingTokenError /\ client = NoClient
       /\ (~Truthy(ctorArg.arg.accessToken) /\ ctorArg.arg.useSandbox = "true")
          => ctorError = NoError /\ client.kind = "Oura"

C8_Witness ==
    /\ ctorArg.class = "Oura"
    /\ ctorArg.arg.accessToken = Undef /\ ctorArg.arg.useSandbox = "true"
    /\ client.kind = "Oura" /\ ctorError = NoError

\* C9: OAuth construction.  With exactly one of clientId, clientSecret,
\* redirectUri missing the constructor raises the error named for that
\* field; with all three present it yields a client.
C9_OAuthConstruction ==
    (ctorArg.class = "OuraOAuth")
    => LET o == ctorArg.arg
           missing == {f \in {"clientId", "clientSecret", "redirectUri"} : ~Truthy(o[f])}
       IN /\ missing = {"clientId"} => ctorError = MissingClientIdError /\ client = NoClient
          /\ missing = {"clientSecret"} => ctorError = MissingClientSecretError /\ client = NoClient
          /\ missing = {"redirectUri"} => ctorError = MissingRedirectUriError /\ client = NoClient
          /\ missing = {} => ctorError = NoError /\ client.kind = "OuraOAuth"

C9_Witness ==
    /\ ctorArg.class = "OuraOAuth"
    /\ ctorArg.arg.clientId = "cred" /\ ctorArg.arg.clientSecret = "cred"
    /\ ctorArg.arg.redirectUri = Undef
    /\ ctorError = MissingRedirectUriError /\ client = NoClient

\* C10: per-call token.  A data-fetching facade call on the OAuth client
\* without an access token (undefined or empty) has raised
\* MissingTokenError and no request was issued.
C10_PerCallToken ==
    (OAuthData /\ ~Truthy(call.accessToken))
    => /\ pc = "done"
       /\ outcome = Throw(MissingTokenError)
       /\ requests = <<>>

C10_Witness ==
    /\ client.kind = "OuraOAuth" /\ call.op = "getHeartrate" /\ call.accessToken = ""
    /\ outcome = Throw(MissingTokenError) /\ requests = <<>>

\* C11: failure mid-pagination.  When pages 1..k-1 (k >= 2) were successful
\* pages with a non-null next_token and the response to request k is
\* non-2xx, the call has rejected with the error built from response k, the
\* items accumulated from pages 1..k-1 are not part of what the caller gets,
\* and request k is the last request issued.
C11_MidPaginationFailure ==
    (/\ OAuthData /\ Len(responses) >= 2
     /\ \A i \in 1..(Len(responses) - 1) :
           IsPage(responses[i]) /\ responses[i].body.next_token # Null
     /\ ~ok(lastResp.status))
    => /\ pc = "done"
       /\ outcome = Throw(OuraBase_get(requests[Len(responses)].base, call.endpoint, lastResp).err)
       /\ outcome.err.statusCode = lastResp.status
       /\ outcome.items = <<>>
       /\ Len(requests) = Len(responses)

C11_Witness ==
    /\ OAuthData /\ call.op = "getDocuments" /\ Len(responses) = 3
    /\ \A i \in 1..2 : IsPage(responses[i]) /\ Truthy(responses[i].body.next_token)
    /\ allData = <<"a", "b", "a">>
    /\ lastResp.status = 500
    /\ pc = "done" /\ outcome.kind = "error" /\ Len(requests) = 3

\* C12 as stated: propagation policy.  For every facade call of every
\* client, once a request was answered non-2xx the call has settled with an
\* error (the error reaches the caller, no normal result stands in for it),
\* the failed request was not issued again, and the library has written
\* nothing about the error to the console.
C12_Original ==
    (responses # <<>> /\ ~ok(lastResp.status))
    => /\ pc = "done" /\ outcome.kind = "error"
       /\ outcome.err.statusCode = lastResp.status
       /\ Len(requests) = Len(responses)
       /\ console = <<>>

\* C13 as stated: the body of an updateSubscription request always holds
\* verification_token, and holds callback_url, event_type and data_type
\* exactly when the corresponding argument was supplied; no key is present
\* with a null or undefined value.
C13_Original ==
    (client.kind = "Webhook" /\ call.op = "updateSubscription" /\ requests # <<>>)
    => LET body == requests[1].body IN
       /\ body.some
       /\ "verification_token" \in DOMAIN body.kv
       /\ body.kv["verification_token"] = call.args["verification_token"]
       /\ \A f \in {"callback_url", "event_type", "data_type"} :
             /\ f \in DOMAIN body.kv <=> call.args[f] # Undef
             /\ f \in DOMAIN body.kv => body.kv[f] = call.args[f]
       /\ \A f \in DOMAIN body.kv : body.kv[f] \notin {Null, Undef}

\* C13 amended: the body always holds verification_token, and holds
\* callback_url, event_type and data_type exactly when the corresponding
\* argument was supplied with a non-empty value (an argument that is
\* omitted, undefined, null or the empty string leaves its key out); no key
\* is present with a null or undefined value.
C13_UpdateBody ==
    (client.kind = "Webhook" /\ call.op = "updateSubscription" /\ requests # <<>>)
    => LET body == requests[1].body IN
       /\ body.some
       /\ "verification_token" \in DOMAIN body.kv
       /\ body.kv["verification_token"] = call.args["verification_token"]
       /\ \A f \in {"callback_url", "event_type", "data_type"} :
             /\ f \in DOMAIN body.kv <=> Truthy(call.args[f])
             /\ f \in DOMAIN body.kv => body.kv[f] = call.args[f]
       /\ \A f \in DOMAIN body.kv : body.kv[f] \notin {Null, Undef}

C13_Witness ==
    /\ client.kind = "Webhook" /\ call.op = "updateSubscription"
    /\ call.args["callback_url"] = Undef /\ call.args["event_type"] = "update"
    /\ call.args["data_type"] = Undef
    /\ requests # <<>>
    /\ requests[1].method = "PUT"
    /\ requests[1].body = Params([verification_token |-> "vt", event_type |-> "update"])

\* reading a query string back: cut at "&", then name "=" value, the value
\* form-urldecoded piece by piece
RECURSIVE SplitAt(_, _)
SplitAt(q, sep) ==
    IF q = <<>> THEN << <<>> >>
    ELSE LET rest == SplitAt(Tail(q), sep) IN
         IF Head(q) = sep THEN << <<>> >> \o rest
         ELSE << <<Head(q)>> \o rest[1] >> \o Tail(rest)

urldecode(c) ==
    CASE c = "+" -> " " [] c = "%26" -> "&" [] c = "%3D" -> "=" [] c = "%2B" -> "+"
      [] c = "%3A" -> ":" [] c = "%2F" -> "/" [] c = "%3F" -> "?" [] OTHER -> c

ParseQuery(q) ==
    LET parts == SplitAt(q, "&") IN
    { [name |-> parts[i][1],
       value |-> [j \in 1..(Len(parts[i]) - 2) |-> urldecode(parts[i][j + 2])]] : i \in 1..Len(parts) }

\* words with one space between neighbours
SpaceJoined(words) ==
    IF words = <<>> THEN <<>>
    ELSE [i \in 1..(2 * Len(words) - 1) |-> IF i % 2 = 1 THEN words[(i + 1) \div 2] ELSE " "]

\* C14: OAuth authorize URL.  generateAuthUrl(scopes, state) has returned
\* the authorize endpoint followed by "?" and a query string that reads
\* back as exactly response_type=code, client_id and redirect_uri as given
\* to the constructor, scope = the scopes joined by single spaces, and
\* state = the caller's state (the empty string when omitted); no request
\* was issued and the client's fields are as the constructor set them.
C14_AuthUrl ==
    (client.kind = "OuraOAuth" /\ call.op = "generateAuthUrl")
    => /\ pc = "done" /\ outcome.kind = "string"
       /\ Len(outcome.str) > 2
       /\ outcome.str[1] = oauthAuthorize /\ outcome.str[2] = "?"
       /\ \A i \in 3..Len(outcome.str) : outcome.str[i] \notin {" ", "?", ":", "/"}
       /\ ParseQuery(SubSeq(outcome.str, 3, Len(outcome.str))) =
            { [name |-> "response_type", value |-> <<"code">>],
              [name |-> "client_id", value |-> <<ctorArg.arg.clientId>>],
              [name |-> "redirect_uri", value |-> <<ctorArg.arg.redirectUri>>],
              [name |-> "scope", value |-> SpaceJoined(call.scopes)],
              [name |-> "state", value |-> IF call.state.given THEN call.state.str ELSE <<>>] }
       /\ requests = <<>> /\ responses = <<>>
       /\ client = OuraOAuth_constructor(ctorArg.arg).self

C14_Witness ==
    /\ client.kind = "OuraOAuth" /\ call.op = "generateAuthUrl" /\ pc = "done"
    /\ call.scopes = <<"email", "daily">>
    /\ call.state = [given |-> TRUE, str |-> <<"a", "&", "b", "=", "c", " ", "d">>]
    /\ outcome.str = <<oauthAuthorize, "?", "response_type", "=", "code", "&",
                       "client_id", "=", "cred", "&", "redirect_uri", "=", "cred", "&",
                       "scope", "=", "email", "+", "daily", "&",
                       "state", "=", "a", "%26", "b", "%3D", "c", "+", "d">>
    /\ requests = <<>>

\* the base URL the constructor argument selects for user-data requests
ExpectedBase ==
    IF ctorArg.class \in {"Oura", "OuraOAuth"} /\ ctorArg.arg.useSandbox = "true"
    THEN basev2Sandbox ELSE baseV2

\* every request of the running user-data call targets the expected base
AllOnExpectedBase ==
    (client.kind \in {"Oura", "OuraOAuth", "LegacyOura"} /\ call.op \in DataOps)
    => \A i \in 1..Len(requests) : requests[i].base = ExpectedBase

\* C15: base endpoint fixed per client.  In every call of a sequence of
\* user-data facade calls on one instance, every request (every page
\* included) targets the same base URL: the sandbox base when useSandbox was
\* true at construction, the production base otherwise; and no step changes
\* the constructed instance's credential or base.
C15_FixedBase ==
    /\ []AllOnExpectedBase
    /\ [][client # NoClient => (client' = client /\ ctorArg' = ctorArg)]_vars

C15_Witness ==
    /\ client.kind = "OuraOAuth" /\ client.useSandbox
    /\ earlier = "facade" /\ call.op = "getDocuments"
    /\ Len(requests) = 3
    /\ \A i \in 1..3 : requests[i].base = basev2Sandbox

\* C16: sandbox ignores the token.  A static-token client constructed with
\* useSandbox = true and any token (or none) exists, and every request it
\* issues targets the sandbox base with an empty bearer credential; a
\* supplied non-empty token appears in no part of any request.
C16_SandboxToken ==
    (ctorArg.class = "Oura" /\ ctorArg.arg.useSandbox = "true")
    => /\ client.kind = "Oura" /\ ctorError = NoError
       /\ \A i \in 1..Len(requests) :
             /\ requests[i].base = basev2Sandbox
             /\ requests[i].headers = [Authorization |-> <<"Bearer", "">>]
             /\ Truthy(ctorArg.arg.accessToken)
                => /\ requests[i].path # ctorArg.arg.accessToken
                   /\ \A k \in DOMAIN requests[i].qs.kv :
                         requests[i].qs.kv[k] # ctorArg.arg.accessToken
                   /\ requests[i].body = NoParams

C16_Witness ==
    /\ ctorArg.class = "Oura" /\ ctorArg.arg.useSandbox = "true"
    /\ ctorArg.arg.accessToken = "tokA"
    /\ call.op = "getDocuments" /\ Len(requests) = 2
    /\ requests[2].base = basev2Sandbox
    /\ requests[2].headers.Authorization = <<"Bearer", "">>

\* the running call is date-ranged and its start or end value is not a date
HasInvalidDate ==
    /\ call.op \in {"getDocuments", "getHeartrate"}
    /\ \E k \in DOMAIN call.initialParams.kv : call.initialParams.kv[k] \notin ParseableDates

\* C17 as stated: on every facade client variant (static-token and OAuth,
\* the latter called with an access token) a date-ranged call whose start
\* or end value is not a valid date has raised ValidationError and no
\* request was issued.
C17_Original ==
    (/\ \/ client.kind \in {"Oura", "LegacyOura"}
        \/ OAuthData /\ Truthy(call.accessToken)
     /\ HasInvalidDate)
    => /\ Raised("ValidationError")
       /\ requests = <<>>

\* C17 amended: on the static-token client a date-ranged call whose start
\* or end value is not a valid date has raised ValidationError and no
\* request was issued; the OAuth client does not validate before dispatch:
\* called with an access token it issues the request with the values as
\* given.
C17_PreDispatch ==
    HasInvalidDate
    => /\ client.kind \in {"Oura", "LegacyOura"}
          => /\ Raised("ValidationError")
             /\ DOMAIN outcome.err = {"name", "message"}
             /\ requests = <<>> /\ responses = <<>>
       /\ (OAuthData /\ Truthy(call.accessToken))
          => /\ requests # <<>>
             /\ requests[1].qs = call.initialParams

C17_Witness ==
    /\ client.kind = "Oura" /\ call.op = "getDocuments" /\ pc = "done"
    /\ call.initialParams = Params([start_date |-> "2023-01-01", end_date |-> "not-a-date"])
    /\ outcome = Throw(ValidationError("end_date", "not-a-date"))
    /\ requests = <<>>

\* the OAuth2 flow helper methods that issue a request
HelperOps == {"exchangeCodeForToken", "refreshAccessToken", "revokeAccessToken"}

\* C18: OAuth endpoint failures.  For exchangeCodeForToken,
\* refreshAccessToken and revokeAccessToken every non-2xx response, 400 and
\* 429 included, has raised the generic APIError with the response's status,
\* the vendor's raw response text as detail and method POST; on a 2xx
\* response exchange and refresh have returned the parsed token body (the
\* result of response.json()) and revoke has returned true; revoke never
\* returns false.
C18_OAuthFailures ==
    (client.kind = "OuraOAuth" /\ call.op \in HelperOps /\ responses # <<>>)
    => LET s == lastResp.status IN
       /\ pc = "done" /\ Len(requests) = 1 /\ requests[1].method = "POST"
       /\ ~ok(s) => /\ Raised("APIError")
                    /\ outcome.err.statusCode = s
                    /\ outcome.err.detail = lastResp.body
                    /\ outcome.err.method = "POST"
       /\ (ok(s) /\ call.op = "revokeAccessToken") => outcome = ReturnBoolean(TRUE)
       /\ (ok(s) /\ call.op # "revokeAccessToken")
          => IF lastResp.body.json THEN outcome = ReturnObject(lastResp.body)
             ELSE Raised("SyntaxError")
       /\ outcome.kind = "boolean" => outcome.value = TRUE

C18_Witness ==
    /\ client.kind = "OuraOAuth" /\ call.op = "revokeAccessToken" /\ call.accessToken = "tokA"
    /\ responses # <<>> /\ lastResp.status = 429
    /\ lastResp.body.json /\ lastResp.body.detail = "vendor detail"
    /\ outcome.kind = "error" /\ outcome.err.name = "APIError"
    /\ outcome.err.detail = lastResp.body /\ outcome.err.method = "POST"

FullPayload == {"message", "statusCode", "responseBody", "detail", "url", "method"}

\* the errors the library raises for a missing credential
MissingErrors ==
    {MissingTokenError, MissingClientIdError, MissingClientSecretError, MissingRedirectUriError}

\* C19 as stated: every error raised because of a non-2xx response, on every
\* request path (user-data GET, webhook operations, OAuth token / refresh /
\* revoke), carries message, status code, status text, vendor detail,
\* request URL and method; the only library errors that carry a message
\* alone are the construction-time and missing-credential errors.
C19_Original ==
    /\ (responses # <<>> /\ ~ok(lastResp.status))
       => /\ outcome.kind = "error"
          /\ FullPayload \subseteq DOMAIN outcome.err
    /\ (outcome.kind = "error" /\ outcome.err.name # "SyntaxError"
        /\ DOMAIN outcome.err = {"name", "message"})
       => outcome.err \in MissingErrors

\* C19 amended: an error raised because of a non-2xx response carries all
\* six members on the user-data GET and the OAuth token / refresh / revoke
\* paths, with the status and status text of the response and the URL and
\* method of the request, and carries message, status code and status text
\* only on the webhook paths; an error that carries a message alone never
\* stems from a non-2xx response: it is a construction-time or
\* missing-credential error or the static-token client's pre-dispatch
\* ValidationError.
C19_Payload ==
    /\ (responses # <<>> /\ ~ok(lastResp.status))
       => /\ outcome.kind = "error"
          /\ outcome.err.statusCode = lastResp.status
          /\ outcome.err.responseBody = lastResp.statusText
          /\ IF client.kind = "Webhook"
             THEN DOMAIN outcome.err = {"name", "message", "statusCode", "responseBody"}
             ELSE /\ DOMAIN outcome.err = FullPayload \cup {"name"}
                  /\ outcome.err.method = requests[Len(requests)].method
                  /\ outcome.err.url[1] = requests[Len(requests)].base
    /\ (outcome.kind = "error" /\ outcome.err.name # "SyntaxError"
        /\ DOMAIN outcome.err = {"name", "message"})
       => /\ responses = <<>>
          /\ \/ outcome.err \in MissingErrors
             \/ client.kind \in {"Oura", "LegacyOura"} /\ outcome.err.name = "ValidationError"
    /\ ctorError # NoError => ctorError \in MissingErrors

C19_Witness ==
    /\ OAuthData /\ call.op = "getDocumentById" /\ responses # <<>>
    /\ lastResp.status = 500 /\ lastResp.body.detail = "vendor detail"
    /\ outcome = Throw(APIError("APIError", "Problem fetching data.", 500, "Internal Server Error",
                                "vendor detail", <<baseV2, "daily_activity/doc1">>, "GET"))

C21_NoStoredToken ==
    client.kind = "OuraOAuth"
    => /\ client = OuraOAuth_constructor(ctorArg.arg).self
       /\ OAuthData
          => /\ ~Truthy(call.accessToken)
                => outcome = Throw(MissingTokenError) /\ requests = <<>>
             /\ \A i \in 1..Len(requests) :
                   requests[i].headers = [Authorization |-> <<"Bearer", call.accessToken>>]

C21_Witness ==
    /\ client.kind = "OuraOAuth" /\ earlier = "helper"
    /\ call.op = "getDocuments" /\ call.accessToken = Undef
    /\ pc = "done" /\ outcome = Throw(MissingTokenError) /\ requests = <<>>

\* the requests in flight of the running call
InFlight == Len(requests) - Len(responses)

\* a step that issues a request issues one, when none is in flight any
\* more; a request after the first is issued by the step that received the
\* previous response, and carries the cursor read from it
SerialStep ==
    (OAuthData' /\ requests' # requests)
    => /\ Len(requests') = Len(requests) + 1
       /\ Len(responses') = Len(requests)
       /\ requests # <<>>
          => /\ responses' = Append(responses, responses'[Len(responses')])
             /\ Truthy(responses'[Len(responses')].body.next_token)
             /\ requests'[Len(requests')].qs =
                   Params([next_token |-> responses'[Len(responses')].body.next_token])

\* once the call has its outcome nothing happens to it until the caller
\* takes it: no request, no second outcome
SettledStep ==
    (OAuthData /\ pc = "done") => (pc' = "idle" /\ call' = NoCall)

\* a running call has one request in flight and no outcome, a settled one
\* has none in flight and an outcome
SerialState ==
    OAuthData
    => /\ InFlight \in {0, 1}
       /\ (pc = "fetching") <=> (InFlight = 1)
       /\ (pc = "done") <=> (outcome # Pending)
       /\ pc \in {"fetching", "done"}

\* C22: pagination is strictly serial and single-outcome.  During one
\* getAll call at most one page request is in flight; request i+1 is issued
\* only by the step that received response i and read its next_token; the
\* call has no outcome while a request is in flight and exactly one
\* (a returned value or a raised error) once it is done, and after the
\* outcome no further request is issued for that call.
C22_Serial ==
    /\ []SerialState
    /\ [][SerialStep /\ SettledStep]_vars

C22_Witness ==
    /\ OAuthData /\ call.op = "getHeartrate" /\ pc = "done"
    /\ Len(requests) = 3 /\ Len(responses) = 3
    /\ requests[3].qs = Params([next_token |-> "t2"])
    /\ outcome = ReturnArray(<<"a", "a">>)

\* the requests of frame f are built from the arguments of its own call and
\* the cursors of its own responses
OwnRequests(f) ==
    LET fr == frames[f] IN
    \A i \in 1..Len(fr.requests) :
       /\ fr.requests[i].headers = [Authorization |-> <<"Bearer", fr.call.accessToken>>]
       /\ fr.requests[i].path = fr.call.endpoint
       /\ fr.requests[i].qs = IF i = 1 THEN fr.call.initialParams
                              ELSE Params([next_token |-> fr.responses[i - 1].body.next_token])

\* what frame f accumulated or returned is made of the pages served to it
OwnResult(f) ==
    LET fr == frames[f]
        pages == SelectSeq(fr.responses, IsPage)
    IN
    /\ (fr.pc = "fetching" /\ pages = fr.responses) => fr.allData = ConcatData(pages)
    /\ (fr.pc = "done" /\ fr.responses # <<>> /\ pages = fr.responses)
       => fr.outcome = ReturnArray(ConcatData(pages))
    /\ (fr.pc = "done" /\ fr.responses # <<>> /\ IsObject(fr.responses[Len(fr.responses)]))
       => fr.outcome = ReturnObject(fr.responses[Len(fr.responses)].body)

\* C23: isolation of concurrent calls on the same instance.  With two calls
\* running on one client and their page requests interleaved in any order,
\* each call's requests carry its own token, path and cursors, each call's
\* result is the concatenation of the pages served to its own requests,
\* and the instance holds what its constructor set.
C23_Isolation ==
    client.kind = "OuraOAuth"
    => /\ client = OuraOAuth_constructor(ctorArg.arg).self
       /\ \A f \in Frames : frames[f].pc # "idle" => OwnRequests(f) /\ OwnResult(f)

C23_Witness ==
    /\ frames["A"].pc = "done" /\ frames["B"].pc = "fetching"
    /\ frames["A"].call.op = "getDocuments" /\ frames["B"].call.op = "getPersonalInfo"
    /\ Len(frames["A"].responses) = 3 /\ Len(frames["B"].responses) = 2
    /\ frames["A"].outcome = ReturnArray(<<"b", "a", "b">>)
    /\ frames["B"].allData = <<"b", "b">>
    /\ frames["A"].requests[3].qs = Params([next_token |-> "t2"])
    /\ frames["B"].requests[3].qs = Params([next_token |-> "t1"])

\* a response after which getAll asks for no further page: a failure, a
\* body without a data array (unparseable bodies included), or a page
\* whose cursor is null or empty
Terminal(r) ==
    ~ok(r.status) \/ ~r.body.json \/ ~r.body.hasData \/ ~Truthy(r.body.next_token)

\* the same with only the null cursor ending the pagination
TerminalAsStated(r) ==
    ~ok(r.status) \/ ~r.body.json \/ ~r.body.hasData \/ r.body.next_token = Null

TerminationBy ==
    (OAuthData /\ requests # <<>>)
    => /\ (pc = "done") <=> (responses # <<>> /\ Terminal(lastResp))
       /\ \A i \in 1..(Len(responses) - 1) : ~Terminal(responses[i])
       /\ (\A i \in 1..Len(responses) : ~Terminal(responses[i]))
          => /\ pc = "fetching" /\ outcome = Pending
             /\ Len(requests) = Len(responses) + 1

C25_EmptyCursor ==
    (/\ OAuthData /\ responses # <<>>
     /\ \A i \in 1..Len(responses) : IsPage(responses[i])
     /\ lastResp.body.next_token = "")
    => /\ pc = "done"
       /\ outcome = ReturnArray(ConcatData(responses))
       /\ Len(requests) = Len(responses)
       /\ \A i \in 1..Len(requests) :
             "next_token" \in DOMAIN requests[i].qs.kv => requests[i].qs.kv.next_token # ""

C25_Witness ==
    /\ OAuthData /\ call.op = "getDocumentById" /\ pc = "done"
    /\ Len(responses) = 2 /\ Len(requests) = 2
    /\ responses[1].body.next_token = "t1" /\ lastResp.body.next_token = ""
    /\ outcome = ReturnArray(<<"a", "b", "a">>)

\* C26: data-less page after the first.  When pages 1..k-1 (k >= 2) were
\* successful pages with a usable cursor and response k is a 2xx JSON body
\* without a data member, the call has returned that body alone, none of
\* the items of pages 1..k-1 is part of the result, and request k is the
\* last request, also when the body carries a next_token.
C26_DataLessPage ==
    (/\ OAuthData /\ Len(responses) >= 2
     /\ \A i \in 1..(Len(responses) - 1) :
           IsPage(responses[i]) /\ Truthy(responses[i].body.next_token)
     /\ IsObject(lastResp))
    => /\ pc = "done"
       /\ outcome = ReturnObject(lastResp.body)
       /\ outcome.items = <<>>
       /\ Len(requests) = Len(responses)

C26_Witness ==
    /\ OAuthData /\ call.op = "getDocuments" /\ pc = "done"
    /\ Len(responses) = 2 /\ Len(requests) = 2
    /\ allData = <<"b", "a">>
    /\ IsObject(lastResp) /\ lastResp.body.next_token = "t1"
    /\ outcome = ReturnObject(lastResp.body)

\* the credentials missing from the constructor argument
MissingCreds(fields) == {f \in fields : ~Truthy(ctorArg.arg[f])}

\* C27: precedence of the missing-credential errors.  With several
\* credentials missing the OuraOAuth constructor has raised exactly one
\* error, for the first missing one in the order clientId, clientSecret,
\* redirectUri; the Webhook constructor the client-id error before the
\* client-secret error; and no instance exists.
C27_Precedence ==
    /\ (ctorArg.class = "OuraOAuth" /\ MissingCreds({"clientId", "clientSecret", "redirectUri"}) # {})
       => /\ client = NoClient
          /\ ctorError =
                IF ~Truthy(ctorArg.arg.clientId) THEN MissingClientIdError
                ELSE IF ~Truthy(ctorArg.arg.clientSecret) THEN MissingClientSecretError
                ELSE MissingRedirectUriError
    /\ (ctorArg.class = "Webhook" /\ MissingCreds({"clientId", "clientSecret"}) # {})
       => /\ client = NoClient
          /\ ctorError =
                IF ~Truthy(ctorArg.arg.clientId) THEN MissingClientIdError
                ELSE MissingClientSecretError

C27_Witness ==
    /\ ctorArg.class = "OuraOAuth"
    /\ MissingCreds({"clientId", "clientSecret", "redirectUri"}) = {"clientId", "clientSecret", "redirectUri"}
    /\ ctorError = MissingClientIdError /\ client = NoClient

\* C28 as stated: when the body of a non-2xx response to OuraBase.#get is
\* valid JSON without a detail field, or with an empty one, the raised
\* error's detail is the empty string; and the detail is "No details" only
\* when the body is not valid JSON.
C28_Original ==
    (OAuthData /\ responses # <<>> /\ ~ok(lastResp.status))
    => /\ (lastResp.body.json /\ ~Truthy(lastResp.body.detail)) => outcome.err.detail = ""
       /\ outcome.err.detail = "No details" => ~lastResp.body.json

\* C28 amended: when the body of a non-2xx response to OuraBase.#get is a
\* JSON value other than null without a detail field, or with an empty
\* one, the raised error's detail is the empty string; the detail is
\* "No details" only when the body is not valid JSON or is the JSON value
\* null.
C28_EmptyDetail ==
    (OAuthData /\ responses # <<>> /\ ~ok(lastResp.status))
    => /\ outcome.kind = "error"
       /\ (lastResp.body.json /\ ~lastResp.body.isNull /\ ~Truthy(lastResp.body.detail))
          => outcome.err.detail = ""
       /\ outcome.err.detail = "No details" => (~lastResp.body.json \/ lastResp.body.isNull)

C28_Witness ==
    /\ OAuthData /\ responses # <<>>
    /\ lastResp.status = 429 /\ lastResp.body.json /\ ~lastResp.body.isNull
    /\ lastResp.body.detail = Undef
    /\ outcome.kind = "error" /\ outcome.err.name = "RateLimitExceeded" /\ outcome.err.detail = ""

UrlPieces(err) == {err.url[i] : i \in 1..Len(err.url)}

\* C30: token exposure on revoke failure.  When revokeAccessToken(token)
\* was answered non-2xx, the url of the raised APIError is the revoke
\* endpoint followed by ?access_token= and the token itself; the url of an
\* error raised for a user-data request is the base endpoint followed by
\* the path, without a query string and without the bearer token.
C30_TokenInUrl ==
    /\ (client.kind = "OuraOAuth" /\ call.op = "revokeAccessToken"
        /\ responses # <<>> /\ ~ok(lastResp.status))
       => /\ Raised("APIError")
          /\ outcome.err.url = <<oauthRevokeToken, "?access_token=", call.accessToken>>
          /\ call.accessToken \in UrlPieces(outcome.err)
    /\ (OAuthData /\ responses # <<>> /\ ~ok(lastResp.status))
       => /\ outcome.kind = "error"
          /\ outcome.err.url = <<requests[Len(requests)].base, call.endpoint>>
          /\ call.accessToken \notin UrlPieces(outcome.err)
          /\ \A k \in DOMAIN requests[Len(requests)].qs.kv :
                requests[Len(requests)].qs.kv[k] \notin UrlPieces(outcome.err)

C30_Witness ==
    /\ client.kind = "OuraOAuth" /\ call.op = "revokeAccessToken" /\ call.accessToken = "tokA"
    /\ responses # <<>> /\ lastResp.status = 500
    /\ Raised("APIError")
    /\ outcome.err.url = <<oauthRevokeToken, "?access_token=", "tokA">>

====
